---------------------------- MODULE Spec2Model ----------------------------
(***************************************************************************)
(* A model of the tick scheduling engine of rsl_turn_sequencing:           *)
(* step_tick (engine.py) with the event sink (event_sink.py), the legacy   *)
(* effect model (effects.py), the BUFF duration/expiration machinery, the  *)
(* guarded mastery-proc resolution, the default hit-contribution resolver  *)
(* and the engine-built hit provider (skill_provider.py, skill_buffs.py).  *)
(*                                                                         *)
(* Numbers.  Turn meters and speeds are floats in the program.  Every      *)
(* value the model feeds in is an integer and every product it forms is an *)
(* integer too, so the program's float arithmetic is exact on them and     *)
(* tm + EPS >= TM_GATE (EPS = 1e-9) is tm >= TM_GATE.  Multipliers are     *)
(* kept in percent (100 is 1.0).                                           *)
(*                                                                         *)
(* One call of step_tick is one action; an exception raised inside the     *)
(* call leaves the state as the call left it and is recorded in `raised`.  *)
(***************************************************************************)
EXTENDS Integers, Sequences, FiniteSets, TLC

VARIABLES
    cfg,            \* the arguments every step_tick call of the run is given
    actors,         \* the caller-owned actor list (sequence of Actor records)
    events,         \* InMemoryEventSink.events
    tick,           \* InMemoryEventSink._tick
    seq,            \* InMemoryEventSink._seq
    turn_counter,   \* event_sink.turn_counter (set by step_tick)
    qcounts,        \* event_sink._qualifying_expiration_counts
    resolved,       \* event_sink._mastery_proc_keys_resolved
    emitted,        \* event_sink._mastery_proc_keys_emitted
    seed_tc,        \* actors[0]._turn_counter (runs without a sink)
    returned,       \* what each step_tick call returned (0 is None), in call order
    raised,         \* the exception the last call raised, "none" if it returned
    grants,         \* extra turns the caller has granted by hand so far
    breaks          \* times the caller has set the boss shield to 0 by hand

vars == <<cfg, actors, events, tick, seq, turn_counter, qcounts, resolved,
          emitted, seed_tc, returned, raised, grants, breaks>>

-----------------------------------------------------------------------------
(* Program constants *)

TM_GATE == 1430

\* TM_GATE * 0.10 * count, for the counts the model uses (an exact product).
MasteryBonus(count) == (TM_GATE * count) \div 10

\* Actor.shield_max = None
NoShieldMax == -1

\* per_target default of a faultless_defense blessing (emits.get("count", 1))
FaultlessPerTarget == 1

\* duration of the BUFFs placed by Mikage's B_A3
BuffDuration == 2

\* duration of the HEX placed by Mithrala's A2
HexDuration == 2

(* Event vocabulary *)
TICK_START == "TICK_START"
FILL_COMPLETE == "FILL_COMPLETE"
WINNER_SELECTED == "WINNER_SELECTED"
TURN_START == "TURN_START"
RESET_APPLIED == "RESET_APPLIED"
TURN_END == "TURN_END"
EFFECT_TRIGGERED == "EFFECT_TRIGGERED"
EFFECT_APPLIED == "EFFECT_APPLIED"
EFFECT_DURATION_SET == "EFFECT_DURATION_SET"
EFFECT_DURATION_CHANGED == "EFFECT_DURATION_CHANGED"
EFFECT_EXPIRED == "EFFECT_EXPIRED"
MASTERY_PROC == "MASTERY_PROC"
SKILL_CONSUMED == "SKILL_CONSUMED"
\* Used by engine.py (lines 1474, 1565) and listed in the event vocabulary;
\* the EventType declaration under src/ does not list it.
MASTERY_PROC_REJECTED == "MASTERY_PROC_REJECTED"

(* Effect kinds of the legacy duration model *)
DECREASE_SPD == "DECREASE_SPD"
POISON == "POISON"
HEX == "HEX"

-----------------------------------------------------------------------------
(* Bounds of the model *)

\* step_tick calls per run
MaxCalls == 10

\* extra turns the caller grants by hand over a run
MaxGrants == 1

\* times the caller breaks the boss shield by hand over a run
MaxBreaks == 1

\* the largest `ticks` a run_ticks call is given
MaxTicks == 7

-----------------------------------------------------------------------------
(* Small helpers *)

Max2(a, b) == IF a >= b THEN a ELSE b

Min2(a, b) == IF a <= b THEN a ELSE b

RECURSIVE SumSeq(_)
SumSeq(s) == IF s = <<>> THEN 0 ELSE Head(s) + SumSeq(Tail(s))

RECURSIVE FilterSeq(_, _)
\* the elements of s whose index is in keep, in order
FilterSeq(s, keep) ==
    IF s = <<>> THEN <<>>
    ELSE LET n == Len(s)
             front == FilterSeq(SubSeq(s, 1, n - 1), keep)
         IN IF n \in keep THEN Append(front, s[n]) ELSE front

\* Alphabetical rank of the actor names the model uses (Python's str order).
NameOrd(name) ==
    CASE name = "Boss" -> 1
      [] name = "Coldheart" -> 2
      [] name = "Fire Knight" -> 3
      [] name = "Martyr" -> 4
      [] name = "Mikage" -> 5
      [] name = "Mithrala" -> 6
      [] name = "Tomblord" -> 7
      [] OTHER -> 0

\* (actor_name or "").strip().lower() in {"mikage", "lady mikage"}
IsMikageName(name) == name \in {"Mikage", "Lady Mikage"}

\* "fire knight" in acting_actor.name.lower()
IsFireKnight(name) == name = "Fire Knight"

-----------------------------------------------------------------------------
(* Data model (models.py, effects.py, events.py) *)

\* Actor(name, speed, ...) with the dataclass defaults of models.py.
Actor(name, speed) ==
    [name |-> name, speed |-> speed, shield |-> 0, shield_max |-> NoShieldMax,
     is_boss |-> FALSE, faction |-> "", skill_sequence |-> <<>>,
     skill_sequence_cursor |-> 0, blessings |-> {}, a1_hits |-> 1,
     max_hp |-> 0, hp |-> 0, speed_multiplier |-> 100, turn_meter |-> 0,
     extra_turns |-> 0, effects |-> <<>>, active_effects |-> <<>>,
     current_turn_counter |-> 0]

\* Effect(kind, turns_remaining, magnitude); magnitude in percent for
\* DECREASE_SPD, in hit points for POISON.
Effect(kind, turns_remaining, magnitude) ==
    [kind |-> kind, turns_remaining |-> turns_remaining, magnitude |-> magnitude]

\* EffectInstance as engine.py and skill_buffs.py construct it.
EffectInstance(instance_id, effect_id, effect_kind, placed_by, duration, applied_turn) ==
    [instance_id |-> instance_id, effect_id |-> effect_id,
     effect_kind |-> effect_kind, placed_by |-> placed_by,
     duration |-> duration, applied_turn |-> applied_turn]

\* Event(tick, seq, type, actor, data)
Event(t, s, type, actor, data) ==
    [tick |-> t, seq |-> s, type |-> type, actor |-> actor, data |-> data]

\* The index of the first actor named name, 0 if there is none:
\* next((a for a in actors if a.name == name), None)
IndexOfName(as, name) ==
    LET hits == {i \in 1..Len(as) : as[i].name = name}
    IN IF hits = {} THEN 0 ELSE CHOOSE i \in hits : \A j \in hits : i <= j

\* next((a for a in actors if a.is_boss), None), as an index
BossIndex(as) ==
    LET hits == {i \in 1..Len(as) : as[i].is_boss}
    IN IF hits = {} THEN 0 ELSE CHOOSE i \in hits : \A j \in hits : i <= j

\* seq[cursor - 1] if 0 < cursor <= len(seq) else ""
LastSkill(a) ==
    IF a.skill_sequence_cursor > 0 /\ a.skill_sequence_cursor <= Len(a.skill_sequence)
    THEN a.skill_sequence[a.skill_sequence_cursor]
    ELSE ""

-----------------------------------------------------------------------------
(* The state a call works on: the actor list, the sink's fields, and the    *)
(* exception raised so far ("none" while the call is running normally).     *)
(* has_sink is FALSE for event_sink=None: nothing is then recorded.         *)

Machine(as, ev, t, s, tc, qc, res, em, stc, hs) ==
    [actors |-> as, events |-> ev, tick |-> t, seq |-> s, turn_counter |-> tc,
     qcounts |-> qc, resolved |-> res, emitted |-> em, seed_tc |-> stc,
     has_sink |-> hs, raised |-> "none", winner |-> 0]

Raise(m, exc) == IF m.raised = "none" THEN [m EXCEPT !.raised = exc] ELSE m

\* A faulty start_tick: the tick is advanced, seq goes on from where it was.
start_tick_keeps_seq(m) == [m EXCEPT !.tick = m.tick + 1]

\* InMemoryEventSink.start_tick
start_tick(m) == [m EXCEPT !.tick = m.tick + 1, !.seq = 0]

\* A faulty emit: the event gets the next seq, the sink's counter is not advanced.
emit_stale_seq(m, type, actor, data) ==
    IF m.raised # "none" THEN m
    ELSE IF m.tick <= 0 THEN Raise(m, "RuntimeError")
    ELSE [m EXCEPT !.events = Append(m.events, Event(m.tick, m.seq + 1, type, actor, data))]

\* A faulty emit: the event is appended whether or not a tick is open.
emit_without_tick(m, type, actor, data) ==
    IF m.raised # "none" THEN m
    ELSE [m EXCEPT !.seq = m.seq + 1,
                   !.events = Append(m.events, Event(m.tick, m.seq + 1, type, actor, data))]

\* InMemoryEventSink.emit
emit(m, type, actor, data) ==
    IF m.raised # "none" THEN m
    ELSE IF m.tick <= 0 THEN Raise(m, "RuntimeError")
    ELSE [m EXCEPT !.seq = m.seq + 1,
                   !.events = Append(m.events, Event(m.tick, m.seq + 1, type, actor, data))]

\* event_sink.emit(...) guarded by `if event_sink is not None`
EmitIfSink(m, type, actor, data) ==
    IF m.has_sink THEN emit(m, type, actor, data) ELSE m

-----------------------------------------------------------------------------
(* effects.py *)

ClampPct(x) == Max2(0, Min2(100, x))

RECURSIVE speed_multiplier_from_effects(_)
\* In percent; every factor (1 - mag) the model uses keeps the product whole.
speed_multiplier_from_effects(effects) ==
    IF effects = <<>> THEN 100
    ELSE LET e == Head(effects)
             rest == speed_multiplier_from_effects(Tail(effects))
         IN IF e.turns_remaining <= 0 THEN rest
            ELSE IF e.kind = DECREASE_SPD
                 THEN (rest * (100 - ClampPct(e.magnitude))) \div 100
                 ELSE rest

RECURSIVE apply_turn_start_effects(_)
\* [remaining, expired, poison_dmg]
apply_turn_start_effects(effects) ==
    IF effects = <<>> THEN [remaining |-> <<>>, expired |-> <<>>, poison_dmg |-> 0]
    ELSE LET e == Head(effects)
             r == apply_turn_start_effects(Tail(effects))
         IN IF e.turns_remaining <= 0
            THEN [r EXCEPT !.expired = <<e>> \o r.expired]
            ELSE IF e.kind = POISON
                 THEN LET new_n == e.turns_remaining - 1
                      IN IF new_n <= 0
                         THEN [r EXCEPT !.expired = <<Effect(e.kind, 0, e.magnitude)>> \o r.expired,
                                        !.poison_dmg = r.poison_dmg + e.magnitude]
                         ELSE [r EXCEPT !.remaining = <<Effect(e.kind, new_n, e.magnitude)>> \o r.remaining,
                                        !.poison_dmg = r.poison_dmg + e.magnitude]
                 ELSE [r EXCEPT !.remaining = <<e>> \o r.remaining]

\* A faulty TURN_END: the effects keep their turns.
TurnEndKeepsTurns(effects) == [remaining |-> effects, expired |-> <<>>]

RECURSIVE decrement_turn_end(_)
\* [remaining, expired]
decrement_turn_end(effects) ==
    IF effects = <<>> THEN [remaining |-> <<>>, expired |-> <<>>]
    ELSE LET e == Head(effects)
             r == decrement_turn_end(Tail(effects))
         IN IF e.turns_remaining <= 0
            THEN [r EXCEPT !.expired = <<e>> \o r.expired]
            ELSE IF e.kind = POISON
                 THEN [r EXCEPT !.remaining = <<e>> \o r.remaining]
                 ELSE LET new_n == e.turns_remaining - 1
                      IN IF new_n <= 0
                         THEN [r EXCEPT !.expired = <<Effect(e.kind, 0, e.magnitude)>> \o r.expired]
                         ELSE [r EXCEPT !.remaining = <<Effect(e.kind, new_n, e.magnitude)>> \o r.remaining]

-----------------------------------------------------------------------------
(* Python dicts with integer values: functions with an explicit domain *)

EmptyMap == [k \in {} |-> 0]

Get(map, k) == IF k \in DOMAIN map THEN map[k] ELSE 0

\* map[k] = v
Put(map, k, v) == [x \in (DOMAIN map) \cup {k} |-> IF x = k THEN v ELSE map[x]]

RECURSIVE SumOver(_, _)
SumOver(map, keys) ==
    IF keys = {} THEN 0
    ELSE LET k == CHOOSE x \in keys : TRUE
         IN map[k] + SumOver(map, keys \ {k})

-----------------------------------------------------------------------------
(* skill_buffs.py: apply_skill_buffs *)

\* allies: [a for a in actors if not a.is_boss], as indexes in list order
AllyIndexes(as) ==
    LET keep == {i \in 1..Len(as) : ~as[i].is_boss}
    IN FilterSeq([i \in 1..Len(as) |-> i], keep)

\* f"fx_{holder}_{s}_{seq_index}_{target.name}_{effect_id}"
InstanceId(holder, s, seq_index, target_name, effect_id) ==
    <<"fx", holder, s, seq_index, target_name, effect_id>>

RECURSIVE PlaceTeamBuffs(_, _, _, _, _, _, _)
\* B_A3: for target in allies: for effect_id in (increase_atk, increase_c_dmg).
\* todo is the sequence of <<target index, effect_id>> still to place.
PlaceTeamBuffs(m, todo, holder, s, seq_index, applied_turn, with_sink) ==
    IF todo = <<>> \/ m.raised # "none" THEN m
    ELSE LET i == Head(todo)[1]
             effect_id == Head(todo)[2]
             target == m.actors[i]
             inst == EffectInstance(InstanceId(holder, s, seq_index, target.name, effect_id),
                                    effect_id, "BUFF", holder, BuffDuration, applied_turn)
             m1 == [m EXCEPT !.actors[i].active_effects = Append(@, inst)]
             m2 == IF with_sink
                   THEN emit(m1, EFFECT_APPLIED, holder,
                             [instance_id |-> inst.instance_id, effect_id |-> effect_id,
                              effect_kind |-> "BUFF", owner |-> target.name,
                              placed_by |-> holder, duration |-> inst.duration,
                              source_skill_id |-> s, source_sequence_index |-> seq_index])
                   ELSE m1
             m3 == IF with_sink
                   THEN emit(m2, EFFECT_DURATION_SET, holder,
                             [instance_id |-> inst.instance_id, effect_id |-> effect_id,
                              effect_kind |-> "BUFF", owner |-> target.name,
                              placed_by |-> holder, duration |-> inst.duration,
                              reason |-> "initial_application", boundary |-> "placement"])
                   ELSE m2
         IN PlaceTeamBuffs(m3, Tail(todo), holder, s, seq_index, applied_turn, with_sink)

RECURSIVE TeamBuffTodo(_)
TeamBuffTodo(allies) ==
    IF allies = <<>> THEN <<>>
    ELSE << <<Head(allies), "increase_atk">>, <<Head(allies), "increase_c_dmg">> >>
         \o TeamBuffTodo(Tail(allies))

RECURSIVE ExtendBuffs(_, _, _, _, _, _)
\* B_A2: every BUFF instance on every ally gets duration + 1.
\* todo is the sequence of <<target index, position in active_effects>>.
ExtendBuffs(m, todo, holder, s, seq_index, with_sink) ==
    IF todo = <<>> \/ m.raised # "none" THEN m
    ELSE LET i == Head(todo)[1]
             k == Head(todo)[2]
             fx == m.actors[i].active_effects[k]
         IN IF fx.effect_kind # "BUFF"
            THEN ExtendBuffs(m, Tail(todo), holder, s, seq_index, with_sink)
            ELSE LET old == fx.duration
                     new == old + 1
                     m1 == [m EXCEPT !.actors[i].active_effects[k].duration = new]
                     m2 == IF with_sink
                           THEN emit(m1, EFFECT_DURATION_CHANGED, holder,
                                     [instance_id |-> fx.instance_id, effect_id |-> fx.effect_id,
                                      effect_kind |-> fx.effect_kind, owner |-> m.actors[i].name,
                                      placed_by |-> fx.placed_by, old_duration |-> old,
                                      new_duration |-> new, delta |-> 1, reason |-> "B_A2",
                                      source_skill_id |-> s, source_sequence_index |-> seq_index])
                           ELSE m1
                 IN ExtendBuffs(m2, Tail(todo), holder, s, seq_index, with_sink)

RECURSIVE ExtendTodo(_, _)
ExtendTodo(as, allies) ==
    IF allies = <<>> THEN <<>>
    ELSE [k \in 1..Len(as[Head(allies)].active_effects) |-> <<Head(allies), k>>]
         \o ExtendTodo(as, Tail(allies))

apply_skill_buffs(m, actor_name, skill_id, with_sink) ==
    IF m.raised # "none" \/ skill_id = "" THEN m
    ELSE IF ~IsMikageName(actor_name) THEN m
    ELSE LET h == IndexOfName(m.actors, actor_name)
         IN IF h = 0 THEN m
            ELSE LET seq_index == m.actors[h].skill_sequence_cursor
                     applied_turn == m.actors[h].current_turn_counter
                     allies == AllyIndexes(m.actors)
                 IN IF skill_id = "B_A3"
                    THEN PlaceTeamBuffs(m, TeamBuffTodo(allies), actor_name, skill_id,
                                        seq_index, applied_turn, with_sink)
                    ELSE IF skill_id = "B_A2"
                    THEN ExtendBuffs(m, ExtendTodo(m.actors, allies), actor_name, skill_id,
                                     seq_index, with_sink)
                    ELSE m

-----------------------------------------------------------------------------
(* skill_provider.py: the hit provider the engine builds from a battle spec *)

\* Faulty side effects: Metamorph grants nothing.
MetamorphIgnored(m, actor_name, skill_id) == m

\* _apply_skill_side_effects
apply_skill_side_effects(m, actor_name, skill_id) ==
    IF m.raised # "none" \/ skill_id = "" THEN m
    ELSE IF IsMikageName(actor_name) /\ skill_id \in {"A_A4", "B_A4", "METAMORPH"}
    THEN LET i == IndexOfName(m.actors, actor_name)
         IN IF i = 0 THEN m
            ELSE [m EXCEPT !.actors[i].extra_turns = @ + 1]
    ELSE apply_skill_buffs(m, actor_name, skill_id, TRUE)

\* A faulty provider: an exhausted sequence starts again from its first token.
ProviderWrapsAround(m, c, winner) ==
    LET i == IndexOfName(m.actors, winner)
        a == m.actors[i]
        at == IF a.skill_sequence_cursor >= Len(a.skill_sequence)
              THEN 0 ELSE a.skill_sequence_cursor
        skill_id == a.skill_sequence[at + 1]
        m1 == [m EXCEPT !.actors[i].skill_sequence_cursor = at + 1]
        m2 == emit(m1, SKILL_CONSUMED, winner, [skill_id |-> skill_id])
        m3 == apply_skill_side_effects(m2, winner, skill_id)
        hits == Get(c.skill_hits, skill_id)
    IN IF i = 0 \/ a.skill_sequence = <<>>
       THEN [m |-> m, hits |-> EmptyMap]
       ELSE [m |-> m3, hits |-> IF hits > 0 THEN Put(EmptyMap, winner, hits) ELSE EmptyMap]

\* _provider(winner) of build_hit_provider_from_battle_path, with
\* _consume_next_skill inlined: [m, hits], hits the returned dict.
BuiltProvider(m, c, winner) ==
    LET i == IndexOfName(m.actors, winner)
        a == m.actors[i]
        consumes == /\ c.sequence_policy = "error_if_exhausted"
                    /\ i # 0
                    /\ a.skill_sequence # <<>>
    IN IF consumes /\ a.skill_sequence_cursor >= Len(a.skill_sequence)
       THEN [m |-> Raise(m, "SkillSequenceExhaustedError"), hits |-> EmptyMap]
       ELSE IF consumes
       THEN LET skill_id == a.skill_sequence[a.skill_sequence_cursor + 1]
                m1 == [m EXCEPT !.actors[i].skill_sequence_cursor = @ + 1]
                m2 == emit(m1, SKILL_CONSUMED, winner, [skill_id |-> skill_id])
                m3 == apply_skill_side_effects(m2, winner, skill_id)
                hits == Get(c.skill_hits, skill_id)
            IN [m |-> m3, hits |-> IF hits > 0 THEN Put(EmptyMap, winner, hits) ELSE EmptyMap]
       ELSE LET hits == Get(c.hits_by_actor, winner)
            IN [m |-> m, hits |-> IF hits > 0 THEN Put(EmptyMap, winner, hits) ELSE EmptyMap]

-----------------------------------------------------------------------------
(* engine.py: _default_hit_contribution_resolver *)

HasBuff(a, effect_id) ==
    \E k \in 1..Len(a.active_effects) :
        /\ a.active_effects[k].effect_kind = "BUFF"
        /\ a.active_effects[k].effect_id = effect_id

HasBuffPlacedBy(a, effect_id, placer) ==
    \E k \in 1..Len(a.active_effects) :
        /\ a.active_effects[k].effect_kind = "BUFF"
        /\ a.active_effects[k].effect_id = effect_id
        /\ a.active_effects[k].placed_by = placer

\* (a1_hits, speed, name) of actor i is at least that of actor j
JoinKeyGE(as, i, j) ==
    \/ as[i].a1_hits > as[j].a1_hits
    \/ /\ as[i].a1_hits = as[j].a1_hits
       /\ \/ as[i].speed > as[j].speed
          \/ /\ as[i].speed = as[j].speed
             /\ NameOrd(as[i].name) >= NameOrd(as[j].name)

\* max(candidates, key=lambda a: (_a1(a), a.speed, a.name)): the first maximal one
MaxByJoinKey(as, cands) ==
    LET best == {i \in cands : \A j \in cands : JoinKeyGE(as, i, j)}
    IN CHOOSE i \in best : \A j \in best : i <= j

PhantomBonus(a) == IF "phantom_touch" \in a.blessings THEN 1 ELSE 0

\* Faultless Defense: reflect hits on a boss turn
ReflectHits(as, allies) ==
    LET pairs == {p \in allies \X allies :
                     /\ "faultless_defense" \in as[p[1]].blessings
                     /\ HasBuffPlacedBy(as[p[2]], "increase_def", as[p[1]].name)}
    IN Cardinality(pairs) * FaultlessPerTarget

\* the allies that answer a boss turn with a counterattack
CounterattackTargets(as, boss, allies) ==
    IF ~IsFireKnight(boss.name) /\ LastSkill(boss) = "A1" /\ allies # {}
    THEN {MaxByJoinKey(as, allies)}
    ELSE allies

\* what actor i adds to extra[as[i].name] on this turn
ExtraOfActor(as, w, base_hits, i) ==
    LET acting == as[w]
        allies == {j \in 1..Len(as) : ~as[j].is_boss}
        counter ==
            IF acting.is_boss /\ i \in CounterattackTargets(as, acting, allies)
               /\ HasBuff(as[i], "counterattack") /\ as[i].a1_hits > 0
            THEN as[i].a1_hits + PhantomBonus(as[i])
            ELSE 0
        cands == allies \ {w}
        join ==
            IF IsMikageName(acting.name) /\ LastSkill(acting) = "B_A3" /\ cands # {}
               /\ i = MaxByJoinKey(as, cands) /\ as[i].a1_hits > 0
            THEN as[i].a1_hits + PhantomBonus(as[i])
            ELSE 0
    IN counter + join

\* A faulty bonus: the +1 is given whether or not the contributor has a base hit.
PhantomWithoutBase(as, base_hits, name) ==
    IF name # "REFLECT" /\ IndexOfName(as, name) # 0
    THEN PhantomBonus(as[IndexOfName(as, name)])
    ELSE 0

\* the +1 of Phantom Touch for a contributor with one or more base hits
PhantomOnBase(as, base_hits, name) ==
    IF name # "REFLECT" /\ Get(base_hits, name) > 0 /\ IndexOfName(as, name) # 0
    THEN PhantomBonus(as[IndexOfName(as, name)])
    ELSE 0

\* extra: contributor -> hits
default_hit_contribution_resolver(as, w, base_hits) ==
    LET allies == {j \in 1..Len(as) : ~as[j].is_boss}
        names == {as[i].name : i \in 1..Len(as)}
        reflect == IF as[w].is_boss THEN ReflectHits(as, allies) ELSE 0
        ofName(n) ==
            LET idx == {i \in 1..Len(as) : as[i].name = n}
                per == [i \in idx |-> ExtraOfActor(as, w, base_hits, i)]
            IN SumOver(per, idx) + PhantomOnBase(as, base_hits, n)
        keys == {n \in names : ofName(n) > 0} \cup (IF reflect > 0 THEN {"REFLECT"} ELSE {})
    IN [k \in keys |-> IF k = "REFLECT" THEN reflect ELSE ofName(k)]

\* merged[k] = merged.get(k, 0) + inc for every extra entry with inc != 0
MergeHits(current_hits, extra) ==
    LET keys == (DOMAIN current_hits) \cup {k \in DOMAIN extra : extra[k] # 0}
    IN [k \in keys |-> Get(current_hits, k) + Get(extra, k)]

\* A faulty shield update: the hits are subtracted without the floor at 0.
ShieldMinusHits(shield, hits) ==
    IF hits > 0 THEN shield - hits ELSE shield

\* boss.shield = max(0, shield - normal_hits), applied only for positive hits
ShieldAfterHits(shield, hits) ==
    IF hits > 0 THEN Max2(0, shield - hits) ELSE shield

\* the shield math of step_tick: normal hits, then reflect hits
ApplyHitsToBoss(m, current_hits) ==
    LET b == BossIndex(m.actors)
    IN IF b = 0 THEN m
       ELSE LET normal_hits == SumOver(current_hits, (DOMAIN current_hits) \ {"REFLECT"})
                reflect_hits == Get(current_hits, "REFLECT")
                s1 == ShieldAfterHits(m.actors[b].shield, normal_hits)
                s2 == ShieldAfterHits(s1, reflect_hits)
            IN [m EXCEPT !.actors[b].shield = s2]

-----------------------------------------------------------------------------
(* engine.py: BUFF durations at the acting actor's TURN_END *)

\* the actor _boss_shield_snapshot reports on: the first is_boss actor, else the
\* first one named "Boss"; 0 when there is none (the snapshot is None)
SnapshotBoss(as) ==
    IF BossIndex(as) # 0 THEN BossIndex(as) ELSE IndexOfName(as, "Boss")

\* _boss_shield_snapshot(actors)["value"]
boss_shield_snapshot(as) ==
    IF SnapshotBoss(as) = 0 THEN 0 ELSE as[SnapshotBoss(as)].shield

\* "UP" if value > 0 else "BROKEN"
ShieldStatus(value) == IF value > 0 THEN "UP" ELSE "BROKEN"

\* A faulty decrement: the placement turn is not skipped.
DecrementedOnPlacementTurn(fx, tc) ==
    IF fx.effect_kind # "BUFF" THEN fx.duration
    ELSE IF fx.duration > 0 THEN Max2(0, fx.duration - 1) ELSE 0

\* the new duration of one instance at its owner's TURN_END
DecrementedDuration(fx, tc) ==
    IF fx.effect_kind # "BUFF" THEN fx.duration
    ELSE IF fx.applied_turn = tc THEN fx.duration
    ELSE IF fx.duration > 0 THEN Max2(0, fx.duration - 1) ELSE 0

\* A faulty decrement: every duration loses two turns.
DecrementedTwice(fxs, tc) ==
    [k \in 1..Len(fxs) |->
        [fxs[k] EXCEPT !.duration =
            DecrementedDuration([fxs[k] EXCEPT !.duration = DecrementedDuration(fxs[k], tc)], tc)]]

\* _decrement_active_effect_durations_turn_end: the updated list
decrement_active_effect_durations_turn_end(fxs, tc) ==
    [k \in 1..Len(fxs) |-> [fxs[k] EXCEPT !.duration = DecrementedDuration(fxs[k], tc)]]

\* duration_before.get(iid, current duration): the last instance with that id wins
DurationBefore(before, fx) ==
    LET same == {k \in 1..Len(before) : before[k].instance_id = fx.instance_id}
    IN IF same = {} THEN fx.duration
       ELSE before[CHOOSE k \in same : \A j \in same : j <= k].duration

RECURSIVE emit_effect_duration_changed_events(_, _, _, _, _)
\* k runs over the owner's current instances
emit_effect_duration_changed_events(m, w, before, tc, k) ==
    IF m.raised # "none" THEN m
    ELSE IF k > Len(m.actors[w].active_effects) THEN m
    ELSE LET fx == m.actors[w].active_effects[k]
             d0 == DurationBefore(before, fx)
         IN IF fx.effect_kind = "BUFF" /\ d0 # fx.duration
            THEN emit_effect_duration_changed_events(
                     emit(m, EFFECT_DURATION_CHANGED, m.actors[w].name,
                          [instance_id |-> fx.instance_id, effect_id |-> fx.effect_id,
                           owner |-> m.actors[w].name, placed_by |-> fx.placed_by,
                           duration_before |-> d0, duration_after |-> fx.duration,
                           delta |-> fx.duration - d0, reason |-> "tick_decrement",
                           boundary |-> "turn_end", turn_counter |-> tc]),
                     w, before, tc, k + 1)
            ELSE emit_effect_duration_changed_events(m, w, before, tc, k + 1)

\* A faulty count: the expiration is filed under the placer's next step.
RecordedUnderNextStep(m, fx) ==
    IF m.raised # "none" \/ fx.effect_kind # "BUFF" \/ fx.placed_by = "" THEN m
    ELSE LET h == IndexOfName(m.actors, fx.placed_by)
         IN IF h = 0 THEN m
            ELSE [m EXCEPT !.qcounts =
                     Put(m.qcounts, <<m.actors[h].name, m.actors[h].skill_sequence_cursor + 1>>,
                         Get(m.qcounts, <<m.actors[h].name,
                                          m.actors[h].skill_sequence_cursor + 1>>) + 1)]

\* _record_qualifying_expiration
record_qualifying_expiration(m, fx) ==
    IF m.raised # "none" \/ fx.effect_kind # "BUFF" \/ fx.placed_by = "" THEN m
    ELSE LET h == IndexOfName(m.actors, fx.placed_by)
         IN IF h = 0 THEN m
            ELSE LET step == m.actors[h].skill_sequence_cursor
                     key == <<m.actors[h].name, step>>
                 IN IF step <= 0 THEN m
                    ELSE [m EXCEPT !.qcounts = Put(m.qcounts, key, Get(m.qcounts, key) + 1)]

RECURSIVE EmitExpired(_, _, _, _)
\* for fx in expired: emit EFFECT_EXPIRED, then record the qualifying expiration
EmitExpired(m, w, before, expired) ==
    IF expired = <<>> \/ m.raised # "none" THEN m
    ELSE EmitExpired(
             record_qualifying_expiration(
                 emit(m, EFFECT_EXPIRED, m.actors[w].name,
                      [instance_id |-> Head(expired).instance_id,
                       effect_id |-> Head(expired).effect_id,
                       effect_kind |-> Head(expired).effect_kind,
                       owner |-> m.actors[w].name,
                       placed_by |-> Head(expired).placed_by,
                       duration |-> DurationBefore(before, Head(expired)),
                       reason |-> "duration_reached_zero", phase |-> TURN_END]),
                 Head(expired)),
             w, before, Tail(expired))

\* _expire_active_effects_turn_end
expire_active_effects_turn_end(m, w, before) ==
    LET current == m.actors[w].active_effects
        gone == {k \in 1..Len(current) :
                    /\ current[k].effect_kind = "BUFF"
                    /\ DurationBefore(before, current[k]) > 0
                    /\ current[k].duration <= 0}
    IN IF m.raised # "none" \/ gone = {} THEN m
       ELSE EmitExpired([m EXCEPT !.actors[w].active_effects =
                                      FilterSeq(current, (1..Len(current)) \ gone)],
                        w, before, FilterSeq(current, gone))

-----------------------------------------------------------------------------
(* engine.py: mastery proc requests *)

\* A request item {"holder": ..., "mastery": ..., "count": ...}
ProcRequest(holder, mastery, count) ==
    [holder |-> holder, mastery |-> mastery, count |-> count]

\* A faulty lookup: the requests of any step of the champion answer for this one.
RequestedAnyStep(c, name, step) ==
    IF \E k \in DOMAIN c.requests : k[1] = name
    THEN c.requests[CHOOSE k \in DOMAIN c.requests : k[1] = name]
    ELSE <<>>

\* mastery_proc_requester({"champion_name": name, "skill_sequence_step": step}) or []
Requested(c, name, step) ==
    IF <<name, step>> \in DOMAIN c.requests THEN c.requests[<<name, step>>] ELSE <<>>

\* _apply_mastery_proc_effects
apply_mastery_proc_effects(m, holder, mastery, count) ==
    IF m.raised # "none" \/ count <= 0 THEN m
    ELSE IF \/ holder = "Mikage" /\ mastery = "rapid_response"
            \/ holder = "Mithrala" /\ mastery = "arcane_celerity"
    THEN LET i == IndexOfName(m.actors, holder)
         IN IF i = 0 THEN m
            ELSE [m EXCEPT !.actors[i].turn_meter = @ + MasteryBonus(count)]
    ELSE m

\* str(EventType.X) of a str-mixin Enum member: the qualified member name
StrEventType(t) == "EventType." \o t

\* the items of a request list the guarded resolution counts
Counted(items, holder_name) ==
    {k \in 1..Len(items) :
        items[k].holder = holder_name /\ items[k].mastery = "rapid_response"}

\* the loop over `requested` of the guarded resolution:
\* [has_request, requested_total, bad], bad when the loop raised ValueError
TallyRequests(items, holder_name) ==
    LET idx == Counted(items, holder_name)
    IN [has_request |-> idx # {},
        requested_total |-> SumOver([k \in idx |-> items[k].count], idx),
        bad |-> \E k \in idx : items[k].count <= 0]

\* resolved.add(key), reached only when the emit before it returned
MarkResolved(m, key) ==
    IF m.raised # "none" THEN m ELSE [m EXCEPT !.resolved = @ \cup {key}]

\* one iteration of the first loop: key (holder_name, step) with Q = q
ResolveKey(m, c, holder_name, step, q, tc) ==
    LET key == <<holder_name, step>>
        t == TallyRequests(Requested(c, holder_name, step), holder_name)
    IN IF m.raised # "none" \/ holder_name # "Mikage" \/ step <= 0 \/ q <= 0 THEN m
       ELSE IF key \in m.resolved THEN m
       ELSE IF t.bad THEN Raise(m, "ValueError")
       ELSE IF ~t.has_request THEN m
       ELSE IF t.requested_total > q
       THEN MarkResolved(
                emit(m, MASTERY_PROC_REJECTED, holder_name,
                     [holder |-> holder_name, mastery |-> "rapid_response",
                      requested_count |-> t.requested_total, qualifying_count |-> q,
                      qualifying_expiration_count |-> q,
                      resolution_phase |-> StrEventType(TURN_END),
                      resolution_step |-> step,
                      skill_sequence_step |-> step, turn_counter |-> tc,
                      reason |-> "requested_count_exceeds_qualifying"]),
                key)
       ELSE MarkResolved(
                apply_mastery_proc_effects(
                    emit(m, MASTERY_PROC, holder_name,
                         [holder |-> holder_name, mastery |-> "rapid_response",
                          count |-> t.requested_total,
                          qualifying_expiration_count |-> q,
                          resolution_phase |-> StrEventType(TURN_END),
                          resolution_step |-> step,
                          skill_sequence_step |-> step, turn_counter |-> tc]),
                    holder_name, "rapid_response", t.requested_total),
                key)

\* the first key of sorted(counts.items(), key=(holder, step)) among keys
FirstKey(keys) ==
    CHOOSE x \in keys : \A y \in keys :
        \/ NameOrd(x[1]) < NameOrd(y[1])
        \/ NameOrd(x[1]) = NameOrd(y[1]) /\ x[2] <= y[2]

RECURSIVE ResolveKeys(_, _, _, _, _)
\* for (holder, step), q in sorted(counts.items()): keys is what is left to visit
ResolveKeys(m, c, counts, keys, tc) ==
    IF keys = {} THEN m
    ELSE ResolveKeys(
             ResolveKey(m, c, FirstKey(keys)[1], FirstKey(keys)[2],
                        counts[FirstKey(keys)], tc),
             c, counts, keys \ {FirstKey(keys)}, tc)

\* the second loop: a request for Mikage's current step with no qualifying expiration
RejectUnqualified(m, c, tc) ==
    LET h == IndexOfName(m.actors, "Mikage")
        step == m.actors[h].skill_sequence_cursor
        key == <<"Mikage", step>>
        t == TallyRequests(Requested(c, "Mikage", step), "Mikage")
    IN IF m.raised # "none" \/ h = 0 THEN m
       ELSE IF step <= 0 \/ key \in m.resolved \/ Get(m.qcounts, key) # 0 THEN m
       ELSE IF t.bad THEN Raise(m, "ValueError")
       ELSE IF ~t.has_request THEN m
       ELSE MarkResolved(
                emit(m, MASTERY_PROC_REJECTED, "Mikage",
                     [holder |-> "Mikage", mastery |-> "rapid_response",
                      requested_count |-> t.requested_total, qualifying_count |-> 0,
                      qualifying_expiration_count |-> 0,
                      resolution_phase |-> StrEventType(TURN_END),
                      resolution_step |-> step,
                      skill_sequence_step |-> step, turn_counter |-> tc,
                      reason |-> "no_qualifying_expirations"]),
                key)

\* _resolve_guarded_mastery_procs_for_qualifying_expirations
resolve_guarded_mastery_procs_for_qualifying_expirations(m, c, tc) ==
    RejectUnqualified(ResolveKeys(m, c, m.qcounts, DOMAIN m.qcounts, tc), c, tc)

RECURSIVE EmitRequested(_, _, _)
\* the loop over `requested` of the TURN_START seam
EmitRequested(m, items, tc) ==
    IF items = <<>> \/ m.raised # "none" THEN m
    ELSE IF Head(items).holder = "" \/ Head(items).mastery = ""
    THEN EmitRequested(m, Tail(items), tc)
    ELSE IF Head(items).count <= 0 THEN Raise(m, "ValueError")
    ELSE EmitRequested(
             apply_mastery_proc_effects(
                 emit(m, MASTERY_PROC, Head(items).holder,
                      [holder |-> Head(items).holder, mastery |-> Head(items).mastery,
                       count |-> Head(items).count, turn_counter |-> tc]),
                 Head(items).holder, Head(items).mastery, Head(items).count),
             Tail(items), tc)

\* emitted_keys.add(key) if emitted_any, reached only when the loop returned
MarkEmitted(m, key, emitted_any) ==
    IF m.raised = "none" /\ emitted_any THEN [m EXCEPT !.emitted = @ \cup {key}] ELSE m

\* _emit_requested_mastery_procs_once; w acts (the actor of the last TURN_START)
emit_requested_mastery_procs_once(m, c, w, tc) ==
    LET acting_actor == m.actors[w].name
        i == IndexOfName(m.actors, acting_actor)
        key == <<acting_actor, m.actors[i].skill_sequence_cursor + 1>>
        items == Requested(c, key[1], key[2])
    IN IF m.raised # "none" \/ acting_actor = "" \/ key \in m.emitted THEN m
       ELSE MarkEmitted(EmitRequested(m, items, tc), key,
                        \E k \in 1..Len(items) :
                            items[k].holder # "" /\ items[k].mastery # "")

-----------------------------------------------------------------------------
(* engine.py: injected expirations (the expiration_resolver seam) *)

\* item.get("instance_id") of an item without the key (instance ids are tuples
\* here, see InstanceId; the empty string is <<"">>)
Absent == <<>>

\* An injected item {"type": ..., "instance_id": ..., "reason": ...}
ExpireRequest(type, instance_id, reason) ==
    [type |-> type, instance_id |-> instance_id, reason |-> reason]

\* _validate_expire_effect_request returns (TRUE) or raises ValueError (FALSE);
\* an item with none of the three keys fails the dispatch before it, likewise
validate_expire_effect_request(item) ==
    /\ item.type = "expire_effect"
    /\ item.instance_id \notin {Absent, <<"">>}
    /\ item.reason = "injected"

\* expiration_resolver({"phase": phase, "turn_counter": tc, ...}) or []
Injected(c, phase, tc) ==
    IF <<phase, tc>> \in DOMAIN c.injections THEN c.injections[<<phase, tc>>] ELSE <<>>

\* _expire_effect_instance_by_id: <<owner index, position>> of the first match,
\* <<0, 0>> when no actor owns the instance (ValueError)
FindInstance(as, instance_id) ==
    LET owners == {i \in 1..Len(as) :
                      \E k \in 1..Len(as[i].active_effects) :
                          as[i].active_effects[k].instance_id = instance_id}
    IN IF owners = {} THEN <<0, 0>>
       ELSE LET i == CHOOSE x \in owners : \A y \in owners : x <= y
                ks == {k \in 1..Len(as[i].active_effects) :
                          as[i].active_effects[k].instance_id = instance_id}
            IN <<i, CHOOSE k \in ks : \A j \in ks : k <= j>>

\* current.pop(i) on the owner, EFFECT_EXPIRED, then the qualifying record
ExpireInjected(m, at, phase) ==
    LET own == m.actors[at[1]]
        fx == own.active_effects[at[2]]
    IN record_qualifying_expiration(
           emit([m EXCEPT !.actors[at[1]].active_effects =
                              FilterSeq(own.active_effects,
                                        (1..Len(own.active_effects)) \ {at[2]})],
                EFFECT_EXPIRED, own.name,
                [instance_id |-> fx.instance_id, effect_id |-> fx.effect_id,
                 effect_kind |-> fx.effect_kind, owner |-> own.name,
                 placed_by |-> fx.placed_by, duration |-> fx.duration,
                 reason |-> "injected", phase |-> phase]),
           fx)

\* A faulty resolution: what the resolver returns is not looked at.
InjectedIgnored(m, items, phase) == m

RECURSIVE resolve_external_expirations_for_phase(_, _, _)
\* _resolve_external_expirations_for_phase over the items still to handle
resolve_external_expirations_for_phase(m, items, phase) ==
    IF items = <<>> \/ m.raised # "none" THEN m
    ELSE IF ~validate_expire_effect_request(Head(items))
            \/ FindInstance(m.actors, Head(items).instance_id) = <<0, 0>>
    THEN Raise(m, "ValueError")
    ELSE resolve_external_expirations_for_phase(
             ExpireInjected(m, FindInstance(m.actors, Head(items).instance_id), phase),
             Tail(items), phase)

-----------------------------------------------------------------------------
(* engine.py: step_tick *)

NoData == <<>>

\* a.turn_meter += speed * speed_multiplier * speed_multiplier_from_effects(a.effects)
Fill(as) ==
    [i \in 1..Len(as) |->
        [as[i] EXCEPT !.turn_meter =
            @ + (as[i].speed * as[i].speed_multiplier
                 * speed_multiplier_from_effects(as[i].effects)) \div 10000]]

\* A faulty gate: an actor counts as ready one fill before it reaches the gate.
EligibleOneFillEarly(a) == a.turn_meter + a.speed >= TM_GATE

\* a.turn_meter + EPS >= TM_GATE
Eligible(a) == a.turn_meter >= TM_GATE

\* A faulty key: (turn_meter, speed, index), the later actor wins a full tie.
WinnerKeyLaterIndex(as, i, j) ==
    \/ as[i].turn_meter > as[j].turn_meter
    \/ /\ as[i].turn_meter = as[j].turn_meter
       /\ \/ as[i].speed > as[j].speed
          \/ as[i].speed = as[j].speed /\ i >= j

\* key (turn_meter, speed, -index) of i is at least that of j
WinnerKeyGE(as, i, j) ==
    \/ as[i].turn_meter > as[j].turn_meter
    \/ /\ as[i].turn_meter = as[j].turn_meter
       /\ \/ as[i].speed > as[j].speed
          \/ as[i].speed = as[j].speed /\ i <= j

\* A faulty selection: min instead of max over the same key.
SelectLowestKey(as, ready) ==
    CHOOSE i \in ready : \A j \in ready : WinnerKeyGE(as, j, i)

\* max(ready_indexed, key=lambda t: (t[1].turn_meter, t[1].speed, -t[0]))
SelectWinner(as, ready) ==
    CHOOSE i \in ready : \A j \in ready : WinnerKeyGE(as, i, j)

\* A faulty scan: the last actor with extra_turns > 0.
LastExtraCandidate(as) ==
    LET extra == {i \in 1..Len(as) : as[i].extra_turns > 0}
    IN IF extra = {} THEN 0 ELSE CHOOSE i \in extra : \A j \in extra : i >= j

\* the first actor with extra_turns > 0, 0 if there is none
ExtraCandidate(as) ==
    LET extra == {i \in 1..Len(as) : as[i].extra_turns > 0}
    IN IF extra = {} THEN 0 ELSE CHOOSE i \in extra : \A j \in extra : i <= j

RECURSIVE EmitLegacyExpired(_, _, _, _)
\* for e in expired: emit EFFECT_EXPIRED (legacy effect model)
EmitLegacyExpired(m, w, expired, at_turn_start) ==
    IF expired = <<>> \/ m.raised # "none" \/ ~m.has_sink THEN m
    ELSE EmitLegacyExpired(
             emit(m, EFFECT_EXPIRED, m.actors[w].name,
                  IF at_turn_start
                  THEN [effect |-> Head(expired).kind, phase |-> TURN_START]
                  ELSE [effect |-> Head(expired).kind]),
             w, Tail(expired), at_turn_start)

\* A faulty reset: the gate is subtracted, the overflow carried forward.
KeepOverflow(m, w) ==
    IF m.raised # "none" THEN m
    ELSE [m EXCEPT !.actors[w].turn_meter = Max2(0, @ - TM_GATE)]

\* best.turn_meter = 0.0
ZeroMeter(m, w) ==
    IF m.raised # "none" THEN m ELSE [m EXCEPT !.actors[w].turn_meter = 0]

\* WINNER_SELECTED, reset to 0, RESET_APPLIED
ResetWinner(m, w) ==
    EmitIfSink(
        ZeroMeter(
            EmitIfSink(m, WINNER_SELECTED, m.actors[w].name,
                       [actor_index |-> w, pre_reset_tm |-> m.actors[w].turn_meter]),
            w),
        RESET_APPLIED, m.actors[w].name, [actor_index |-> w])

\* join_attack_joiners of the TURN_START payload (None is the empty set here)
JoinAttackJoiners(as, w) ==
    IF as[w].name = "Mikage"
    THEN {as[i].name : i \in {j \in 1..Len(as) :
                                 ~as[j].is_boss /\ j # w /\ as[j].faction = "Shadowkin"}}
    ELSE {}

\* A faulty turn opening: the acting boss keeps the shield it has.
KeepBossShield(m, w) == m

\* a boss that acts gets shield = shield_max when it has a shield_max
ResetBossShield(m, w) ==
    IF m.raised = "none" /\ m.actors[w].is_boss /\ m.actors[w].shield_max # NoShieldMax
    THEN [m EXCEPT !.actors[w].shield = m.actors[w].shield_max]
    ELSE m

\* the shield fields a TURN_START / TURN_END payload carries; has_shield is
\* FALSE for the payloads without them (no boss in the actor list)
Bookmark(m, type, w, joiners) ==
    emit(m, type, m.actors[w].name,
         [actor_index |-> w,
          has_shield |-> SnapshotBoss(m.actors) # 0,
          boss_shield_value |-> boss_shield_snapshot(m.actors),
          boss_shield_status |-> ShieldStatus(boss_shield_snapshot(m.actors)),
          join_attack_joiners |-> joiners])

\* setattr(event_sink, "turn_counter", turn_counter + 1)
BumpTurnCounter(m) ==
    IF m.raised # "none" THEN m ELSE [m EXCEPT !.turn_counter = @ + 1]

\* the CLI seam: only a requester that carries emit_on_turn_start
TurnStartProcs(m, c, w) ==
    IF c.requester = "built" THEN emit_requested_mastery_procs_once(m, c, w, m.turn_counter)
    ELSE m

\* the sink branch from the boss shield reset to the TURN_START-phase expirations
OpenTurnWithSink(m, c, w) ==
    LET opened == TurnStartProcs(
                      BumpTurnCounter(
                          Bookmark(ResetBossShield(m, w), TURN_START, w,
                                   JoinAttackJoiners(m.actors, w))),
                      c, w)
    IN resolve_external_expirations_for_phase(
           opened, Injected(c, TURN_START, m.turn_counter + 1), TURN_START)

\* the turn counter of this turn, kept on the sink or on actors[0]
OpenTurn(m, c, w) ==
    IF m.raised # "none" THEN m
    ELSE IF m.has_sink THEN OpenTurnWithSink(m, c, w)
    ELSE [m EXCEPT !.seed_tc = @ + 1]

CurrentTurnCounter(m) == IF m.has_sink THEN m.turn_counter ELSE m.seed_tc

\* setattr(a, "_current_turn_counter", turn_counter) for every actor
StampTurnCounter(m) ==
    IF m.raised # "none" THEN m
    ELSE [m EXCEPT !.actors =
             [i \in 1..Len(m.actors) |->
                 [m.actors[i] EXCEPT !.current_turn_counter = CurrentTurnCounter(m)]]]

\* A faulty trigger: the damage is dealt, the POISONs keep their turns.
PoisonKeepsTurns(m, w, r) ==
    [m EXCEPT !.actors[w].hp = IF r.poison_dmg > 0 /\ m.actors[w].max_hp > 0
                               THEN Max2(0, @ - r.poison_dmg) ELSE @]

\* best.effects = remaining_start; best.hp = max(0, hp - poison_dmg) when it hurts
PoisonTick(m, w, r) ==
    [m EXCEPT !.actors[w].effects = r.remaining,
              !.actors[w].hp = IF r.poison_dmg > 0 /\ m.actors[w].max_hp > 0
                               THEN Max2(0, @ - r.poison_dmg) ELSE @]

\* EFFECT_TRIGGERED for the poison damage of this TURN_START
EmitPoison(m, w, hurts, amount) ==
    IF hurts
    THEN EmitIfSink(m, EFFECT_TRIGGERED, m.actors[w].name,
                    [effect |-> POISON, amount |-> amount, phase |-> TURN_START])
    ELSE m

\* TURN_START-triggered effects: poison damage and its expirations
TurnStartEffects(m, w) ==
    LET r == apply_turn_start_effects(m.actors[w].effects)
    IN IF m.raised # "none" THEN m
       ELSE EmitLegacyExpired(
                EmitPoison(PoisonTick(m, w, r), w,
                           r.poison_dmg > 0 /\ m.actors[w].max_hp > 0, r.poison_dmg),
                w, r.expired, TRUE)

\* A faulty boss turn: the boss's own skill hits count against its shield.
TurnHitsOnBossTurnToo(m, c, w) ==
    IF c.provider = "built"
    THEN BuiltProvider(m, c, m.actors[w].name)
    ELSE [m |-> m, hits |-> c.hits_by_actor]

\* current_hits of the turn: [m, hits]; c.provider is "built" for a hit_provider
\* built from a battle spec, "counts" for hit_counts_by_actor, "none" for neither
TurnHits(m, c, w) ==
    IF c.provider = "built"
    THEN [BuiltProvider(m, c, m.actors[w].name) EXCEPT
             !.hits = IF m.actors[w].is_boss THEN EmptyMap ELSE @]
    ELSE [m |-> m, hits |-> c.hits_by_actor]

\* the resolver's extras merged into current_hits
MergedHits(as, w, hits) ==
    IF DOMAIN default_hit_contribution_resolver(as, w, hits) # {}
    THEN MergeHits(hits, default_hit_contribution_resolver(as, w, hits))
    ELSE hits

\* r is what TurnHits returned: contributions, then the shield math
ContributeAndHit(r, w) ==
    IF r.m.raised # "none" THEN r.m
    ELSE ApplyHitsToBoss(r.m, MergedHits(r.m.actors, w, r.hits))

\* hits of the turn, the resolver's extras merged in, applied to the boss shield
ApplyTurnHits(m, c, w) ==
    IF m.raised # "none" \/ c.provider = "none" THEN m
    ELSE ContributeAndHit(TurnHits(m, c, w), w)

\* Mithrala's A2 places HEX on a boss whose shield is open
MithralaHex(m, w) ==
    IF m.raised # "none" THEN m
    ELSE IF m.actors[w].name = "Mithrala" /\ LastSkill(m.actors[w]) = "A2"
            /\ BossIndex(m.actors) # 0 /\ m.actors[BossIndex(m.actors)].shield = 0
    THEN EmitIfSink([m EXCEPT !.actors[BossIndex(m.actors)].effects =
                                  Append(@, Effect(HEX, HexDuration, 0))],
                    EFFECT_APPLIED, m.actors[w].name,
                    [effect |-> HEX, target |-> m.actors[BossIndex(m.actors)].name,
                     duration |-> HexDuration, timing |-> "AFTER_SHIELD_OPEN"])
    ELSE m

\* the TURN_END-phase injected expirations (only with a sink)
TurnEndInjections(m, c) ==
    IF m.raised # "none" \/ ~m.has_sink THEN m
    ELSE resolve_external_expirations_for_phase(
             m, Injected(c, TURN_END, CurrentTurnCounter(m)), TURN_END)

\* the decrement, its EFFECT_DURATION_CHANGED events and the expirations of the
\* instances that reached 0 (events and expirations only with a sink)
DecrementAndExpire(m, w) ==
    LET tc == CurrentTurnCounter(m)
        before == m.actors[w].active_effects
        after == [m EXCEPT !.actors[w].active_effects =
                               decrement_active_effect_durations_turn_end(before, tc)]
    IN IF m.raised # "none" THEN m
       ELSE IF ~m.has_sink THEN after
       ELSE IF before = <<>> THEN after
       ELSE expire_active_effects_turn_end(
                emit_effect_duration_changed_events(after, w, before, tc, 1), w, before)

\* remaining_end, expired_end = decrement_turn_end(best.effects), with its events
LegacyDecrement(m, w) ==
    IF m.raised # "none" THEN m
    ELSE EmitLegacyExpired(
             [m EXCEPT !.actors[w].effects = decrement_turn_end(@).remaining],
             w, decrement_turn_end(m.actors[w].effects).expired, FALSE)

\* the guarded resolution, run when there is a sink and a requester
GuardedResolution(m, c) ==
    IF m.raised # "none" \/ ~m.has_sink \/ c.requester = "none" THEN m
    ELSE resolve_guarded_mastery_procs_for_qualifying_expirations(
             m, c, CurrentTurnCounter(m))

\* A faulty close: the turn ends without its TURN_END bookmark.
LeaveTurnOpen(m, w) == m

\* the TURN_END bookmark
EndTurn(m, w) ==
    IF m.raised # "none" \/ ~m.has_sink THEN m ELSE Bookmark(m, TURN_END, w, {})

\* A faulty close: the requests are reconciled before the turn's own expirations.
ResolveBeforeExpiring(m, c, w) ==
    EndTurn(
        LegacyDecrement(
            DecrementAndExpire(GuardedResolution(TurnEndInjections(m, c), c), w),
            w),
        w)

\* the end-of-turn semantics, all before the TURN_END bookmark
CloseTurn(m, c, w) ==
    EndTurn(
        GuardedResolution(
            LegacyDecrement(DecrementAndExpire(TurnEndInjections(m, c), w), w),
            c),
        w)

\* return best
Return(m, w) == IF m.raised = "none" THEN [m EXCEPT !.winner = w] ELSE m

\* everything step_tick does once the acting actor is known
TakeTurn(m, c, w) ==
    Return(
        CloseTurn(
            MithralaHex(
                ApplyTurnHits(
                    TurnStartEffects(StampTurnCounter(OpenTurn(ResetWinner(m, w), c, w)), w),
                    c, w),
                w),
            c, w),
        w)

\* best.extra_turns = int(best.extra_turns) - 1
ConsumeExtraTurn(m, x) == [m EXCEPT !.actors[x].extra_turns = @ - 1]

\* A faulty tick opening: an extra turn opens a tick like a normal turn.
OpenTickEveryCall(m, opens) ==
    IF m.has_sink THEN emit(start_tick(m), TICK_START, "", NoData) ELSE m

\* A faulty opening: the first tick of a log is never opened.
OpenTickAfterFirst(m, opens) ==
    IF m.has_sink /\ opens /\ m.tick > 0 THEN emit(start_tick(m), TICK_START, "", NoData) ELSE m

\* event_sink.start_tick(); event_sink.emit(EventType.TICK_START)
OpenTick(m, opens) ==
    IF m.has_sink /\ opens THEN emit(start_tick(m), TICK_START, "", NoData) ELSE m

\* A faulty fill: FILL_COMPLETE is not recorded.
FillUnrecorded(m) == m

\* FILL_COMPLETE with the meters after the fill
EmitFill(m) ==
    EmitIfSink(m, FILL_COMPLETE, "",
               [meters |-> [i \in 1..Len(m.actors) |-> m.actors[i].turn_meter]])

\* the simultaneous fill of every actor
FillAll(m) ==
    IF m.raised # "none" THEN m ELSE [m EXCEPT !.actors = Fill(m.actors)]

\* the ready actors after the fill and the turn of the selected one
SelectAndAct(m, c) ==
    LET ready == {i \in 1..Len(m.actors) : Eligible(m.actors[i])}
    IN IF m.raised # "none" \/ ready = {} THEN m
       ELSE TakeTurn(m, c, SelectWinner(m.actors, ready))

\* step_tick(actors, event_sink, ...): the state the call leaves, with the
\* index of the returned actor in winner (0 for None)
step_tick(m, c) ==
    IF ExtraCandidate(m.actors) # 0
    THEN TakeTurn(OpenTick(ConsumeExtraTurn(m, ExtraCandidate(m.actors)), m.tick <= 0),
                  c, ExtraCandidate(m.actors))
    ELSE SelectAndAct(EmitFill(FillAll(OpenTick(m, TRUE))), c)

-----------------------------------------------------------------------------
(* stream_io.py: the wire format of an event log *)

\* the values of EventType
EventTypeValues ==
    {TICK_START, FILL_COMPLETE, WINNER_SELECTED, TURN_START, RESET_APPLIED, TURN_END,
     EFFECT_TRIGGERED, EFFECT_APPLIED, EFFECT_DURATION_SET, EFFECT_DURATION_CHANGED,
     EFFECT_EXPIRED, MASTERY_PROC, SKILL_CONSUMED, MASTERY_PROC_REJECTED}

\* d = asdict(e); d["type"] = str(e.type.value)
EventDict(e) ==
    [tick |-> e.tick, seq |-> e.seq, type |-> e.type, actor |-> e.actor, data |-> e.data]

\* [x for x in middle if x.get("type") in types]
OfTypes(middle, types) ==
    FilterSeq(middle, {k \in 1..Len(middle) : middle[k].type \in types})

\* the EFFECT_EXPIRED marker synthesized for a frame with procs and no expiration
SyntheticExpired(frame) ==
    [tick |-> frame[Len(frame)].tick, seq |-> -1, type |-> EFFECT_EXPIRED,
     actor |-> frame[1].actor, data |-> [synthetic |-> TRUE]]

\* a closed TURN_START..TURN_END frame as it is dumped: the bookmark, the other
\* events, the expirations, the procs, the TURN_END
NormalizeFrame(frame) ==
    LET middle == SubSeq(frame, 2, Len(frame) - 1)
        expired == OfTypes(middle, {EFFECT_EXPIRED})
        procs == OfTypes(middle, {MASTERY_PROC})
        other == OfTypes(middle, EventTypeValues \ {EFFECT_EXPIRED, MASTERY_PROC})
    IN <<frame[1]>> \o other
           \o (IF procs # <<>> /\ expired = <<>> THEN <<SyntheticExpired(frame)>>
               ELSE expired)
           \o procs \o <<frame[Len(frame)]>>

RECURSIVE DumpLoop(_, _, _, _)
\* the loop of dump_event_stream over the dicts still to visit
DumpLoop(raw, out, frame, in_frame) ==
    IF raw = <<>> THEN out \o frame
    ELSE IF Head(raw).type = TURN_START
    THEN DumpLoop(Tail(raw), out \o frame, <<Head(raw)>>, TRUE)
    ELSE IF in_frame
    THEN IF Head(raw).type = TURN_END
         THEN DumpLoop(Tail(raw), out \o NormalizeFrame(Append(frame, Head(raw))),
                       <<>>, FALSE)
         ELSE DumpLoop(Tail(raw), out, Append(frame, Head(raw)), TRUE)
    ELSE DumpLoop(Tail(raw), Append(out, Head(raw)), frame, FALSE)

\* dump_event_stream(events)
dump_event_stream(evs) ==
    DumpLoop([k \in 1..Len(evs) |-> EventDict(evs[k])], <<>>, <<>>, FALSE)

\* the checks load_event_stream makes on item i of the array
ItemAccepted(raw, i) ==
    /\ raw[i].tick >= 1
    /\ raw[i].seq >= 1
    /\ raw[i].type \in EventTypeValues
    /\ i > 1 => \/ raw[i - 1].tick < raw[i].tick
                \/ raw[i - 1].tick = raw[i].tick /\ raw[i - 1].seq < raw[i].seq

\* load_event_stream on the array raw: ok is FALSE when InputFormatError is raised
load_event_stream(raw) ==
    IF \A i \in 1..Len(raw) : ItemAccepted(raw, i)
    THEN [ok |-> TRUE,
          events |-> [i \in 1..Len(raw) |->
                         Event(raw[i].tick, raw[i].seq, raw[i].type, raw[i].actor,
                               raw[i].data)]]
    ELSE [ok |-> FALSE, events |-> <<>>]

-----------------------------------------------------------------------------
(* The runs explored: what the caller builds before the first call *)

\* the keyword arguments of step_tick and what the caller does between calls
Config(team, has_sink, provider, requester, requests, injections, hits_by_actor, edits) ==
    [team |-> team, has_sink |-> has_sink, provider |-> provider,
     caller |-> "step_tick", ticks |-> 0, has_stop |-> FALSE, stop_after_boss_turns |-> 0,
     sequence_policy |-> "error_if_exhausted",
     skill_hits |-> [s \in {"A1", "A2", "B_A3"} |-> IF s = "B_A3" THEN 2 ELSE 1],
     hits_by_actor |-> hits_by_actor, requester |-> requester,
     requests |-> requests, injections |-> injections, edits |-> edits]

\* the tick sheet of test_tick_engine.py
SheetTeam ==
    <<Actor("Mikage", 340), Actor("Mithrala", 282), Actor("Tomblord", 270),
      Actor("Coldheart", 265), Actor("Martyr", 252), Actor("Boss", 250)>>

SheetConfigs ==
    {Config(SheetTeam, hs, "none", "none", EmptyMap, EmptyMap, EmptyMap, ed) :
        hs \in BOOLEAN, ed \in {{}, {"grant"}}}

\* three actors that reach the gate together: <<speed, initial turn_meter>> each
TiePairs == {<<700, 30>>, <<715, 0>>}

TieTeam(p1, p2, p3) ==
    <<[Actor("Coldheart", p1[1]) EXCEPT !.turn_meter = p1[2]],
      [Actor("Martyr", p2[1]) EXCEPT !.turn_meter = p2[2]],
      [Actor("Tomblord", p3[1]) EXCEPT !.turn_meter = p3[2]]>>

TieConfigs ==
    {Config(TieTeam(p1, p2, p3), TRUE, "none", "none", EmptyMap, EmptyMap, EmptyMap, ed) :
        p1 \in TiePairs, p2 \in TiePairs, p3 \in TiePairs \cup {<<650, 0>>},
        ed \in {{}, {"grant"}}}

\* a shield fight driven by hit_counts_by_actor, with legacy effects and
\* caller-placed BUFFs (counterattack, increase_def under Faultless Defense)
ShieldTeam(shield_max, boss_cursor, touch) ==
    <<[Actor("Coldheart", 715) EXCEPT
          !.blessings = IF touch THEN {"phantom_touch"} ELSE {},
          !.a1_hits = 2,
          !.active_effects =
              <<EffectInstance(InstanceId("Martyr", "A2", 0, "Coldheart", "counterattack"),
                               "counterattack", "BUFF", "Martyr", 3, 0),
                EffectInstance(InstanceId("Martyr", "A3", 0, "Coldheart", "increase_def"),
                               "increase_def", "BUFF", "Martyr", 1, 0)>>],
      [Actor("Martyr", 700) EXCEPT
          !.blessings = {"faultless_defense"},
          !.effects = <<Effect(DECREASE_SPD, 2, 30)>>,
          !.active_effects =
              <<EffectInstance(InstanceId("Duchess", "A3", 0, "Martyr", "veil"),
                               "veil", "BUFF", "Duchess", 1, 0),
                EffectInstance(InstanceId("Boss", "A1", 0, "Martyr", "block_debuffs"),
                               "block_debuffs", "BUFF", "Boss", 1, 0)>>],
      [Actor("Boss", 650) EXCEPT
          !.is_boss = TRUE, !.shield = shield_max, !.shield_max = shield_max,
          !.turn_meter = 780, !.max_hp = 100, !.hp = 100,
          !.skill_sequence = <<"A1">>, !.skill_sequence_cursor = boss_cursor,
          !.effects = <<Effect(POISON, 2, 60)>>]>>

HitCounts ==
    {[n \in {"Coldheart"} |-> 1],
     [n \in {"Coldheart", "Martyr"} |-> IF n = "Coldheart" THEN 3 ELSE 2]}

ShieldConfigs ==
    {Config(ShieldTeam(sm, bc, pt), hs, "counts", "none", EmptyMap, EmptyMap, h, ed) :
        sm \in {2, 7}, bc \in {0, 1}, pt \in BOOLEAN, hs \in BOOLEAN, h \in HitCounts,
        ed \in {{}, {"break"}}}

\* the team of test_poison_turn_start.py with a third actor: the POISON effects
\* `poisons` on the second actor, and extra turns owed to the second and third
\* actors before the first call (extra is <<second, third>>)
PoisonTeam(max_hp, poisons, extra) ==
    <<[Actor("Coldheart", 715) EXCEPT !.turn_meter = 715],
      [Actor("Martyr", 700) EXCEPT
          !.turn_meter = 30, !.max_hp = max_hp, !.hp = max_hp,
          !.extra_turns = extra[1], !.effects = poisons],
      [Actor("Tomblord", 650) EXCEPT !.extra_turns = extra[2]]>>

PoisonConfigs ==
    {Config(PoisonTeam(hp, ps, x), hs, "none", "none", EmptyMap, EmptyMap, EmptyMap, {}) :
        hp \in {0, 100},
        ps \in {<<Effect(POISON, 1, 60)>>, <<Effect(POISON, 3, 60)>>,
                <<Effect(POISON, 3, 60), Effect(POISON, 1, 25)>>},
        x \in {<<0, 0>>, <<1, 1>>, <<2, 0>>},
        hs \in BOOLEAN}

\* a battle spec run: Mikage, Mithrala and a shielded boss with skill sequences,
\* the hit provider built from the spec, and a proc requester
MikageSequences ==
    {<<"B_A3", "A1", "A1", "A_A4", "A1">>,
     <<"A_A4", "B_A3", "B_A2", "A1", "A1">>,
     <<"B_A3", "A1">>,
     <<"A_A4", "B_A4", "A1">>}

\* a DEBUFF instance the caller placed on the boss for Mikage before the first call
FirstDebuff == InstanceId("Mikage", "A1", 0, "Boss", "decrease_def")

MikageTeam(mikage_seq, touch) ==
    <<[Actor("Mikage", 715) EXCEPT
          !.turn_meter = 715, !.faction = "Shadowkin", !.skill_sequence = mikage_seq],
      [Actor("Mithrala", 700) EXCEPT
          !.turn_meter = 730, !.faction = "Shadowkin",
          !.blessings = IF touch THEN {"phantom_touch"} ELSE {},
          !.skill_sequence = <<"A2", "A1", "A2", "A1", "A2">>],
      [Actor("Boss", 650) EXCEPT
          !.turn_meter = 780, !.is_boss = TRUE, !.shield = 2, !.shield_max = 2,
          !.skill_sequence = <<"A1", "A1", "A1", "A1", "A1">>,
          !.active_effects = <<EffectInstance(FirstDebuff, "decrease_def", "DEBUFF",
                                              "Mikage", 2, 0)>>]>>

\* the same team with a boss shield of 6, Mikage opening with B_A3
JoinTeam(touch) ==
    [MikageTeam(<<"B_A3", "A1", "A1">>, touch) EXCEPT ![3].shield = 6, ![3].shield_max = 6]

OneRequest(holder, step, mastery, count) ==
    [k \in {<<holder, step>>} |-> <<ProcRequest(holder, mastery, count)>>]

RequestSchedules ==
    {OneRequest("Mikage", 1, "rapid_response", 1),
     OneRequest("Mikage", 2, "rapid_response", 2),
     OneRequest("Mikage", 3, "rapid_response", 1),
     OneRequest("Mikage", 3, "rapid_response", 2),
     OneRequest("Mikage", 3, "rapid_response", 3),
     OneRequest("Mikage", 1, "rapid_response", 0),
     OneRequest("Mikage", 1, "arcane_celerity", 0),
     OneRequest("Mithrala", 1, "arcane_celerity", 1)}

\* <<requester, requests>>: no requester, a plain callable, or the requester built
\* from the battle spec (emit_on_turn_start set)
RequesterChoices ==
    {<<"none", EmptyMap>>}
        \cup {<<k, r>> : k \in {"plain", "built"}, r \in RequestSchedules \cup {EmptyMap}}

OneInjection(phase, tc, item) == [k \in {<<phase, tc>>} |-> <<item>>]

\* the first turn's B_A3 BUFF on Mithrala, when Mikage opens with B_A3
FirstBuff == InstanceId("Mikage", "B_A3", 1, "Mithrala", "increase_atk")

InjectionChoices ==
    {EmptyMap,
     OneInjection(TURN_END, 3, ExpireRequest("expire_effect", FirstDebuff, "injected")),
     OneInjection(TURN_START, 2, ExpireRequest("expire_effect", FirstBuff, "injected")),
     OneInjection(TURN_END, 1, ExpireRequest("expire", FirstBuff, "injected")),
     OneInjection(TURN_END, 1, ExpireRequest("expire_effect", Absent, "injected")),
     OneInjection(TURN_END, 1, ExpireRequest("expire_effect", <<"">>, "injected")),
     OneInjection(TURN_END, 1, ExpireRequest("expire_effect", InstanceId("Mikage", "B_A3", 0, "Nobody", "increase_atk"),
                                 "injected"))}

MikageConfigs ==
    {Config(MikageTeam(q, pt), TRUE, "built", rq[1], rq[2], inj, EmptyMap, {}) :
        q \in MikageSequences, pt \in BOOLEAN, rq \in RequesterChoices,
        inj \in InjectionChoices}

JoinConfigs ==
    {Config(JoinTeam(pt), TRUE, "built", "none", EmptyMap, EmptyMap, EmptyMap, {}) :
        pt \in BOOLEAN}

\* the arguments of a run_ticks call on config c: ticks and
\* stop_after_boss_turns (has_stop is FALSE for None)
LoopConfig(c, ticks, has_stop, stop_after_boss_turns) ==
    [c EXCEPT !.caller = "run_ticks", !.ticks = ticks, !.has_stop = has_stop,
              !.stop_after_boss_turns = stop_after_boss_turns]

\* the teams run_ticks is called on: the battle spec team with sequences that
\* last, with a sequence that runs out, and with Metamorph twice
LoopTeams ==
    {MikageTeam(q, FALSE) :
        q \in {<<"B_A3", "A1", "A1", "A_A4", "A1">>, <<"B_A3", "A1">>,
               <<"A_A4", "B_A4", "A1">>}}

LoopConfigs ==
    {LoopConfig(Config(t, TRUE, "built", "built", EmptyMap, EmptyMap, EmptyMap, {}),
                n, st[1], st[2]) :
        t \in LoopTeams, n \in 0..MaxTicks,
        st \in {<<FALSE, 0>>, <<TRUE, 0>>, <<TRUE, 1>>, <<TRUE, 2>>}}

IsConfig(c) ==
    \/ c \in SheetConfigs
    \/ c \in TieConfigs
    \/ c \in ShieldConfigs
    \/ c \in PoisonConfigs
    \/ c \in MikageConfigs
    \/ c \in JoinConfigs
    \/ c \in LoopConfigs

-----------------------------------------------------------------------------
(* The state machine *)

Init ==
    /\ \/ cfg \in SheetConfigs
       \/ cfg \in TieConfigs
       \/ cfg \in ShieldConfigs
       \/ cfg \in PoisonConfigs
       \/ cfg \in MikageConfigs
       \/ cfg \in JoinConfigs
       \/ cfg \in LoopConfigs
    /\ actors = cfg.team
    /\ events = <<>>
    /\ tick = 0
    /\ seq = 0
    /\ turn_counter = 0
    /\ qcounts = EmptyMap
    /\ resolved = {}
    /\ emitted = {}
    /\ seed_tc = 0
    /\ returned = <<>>
    /\ raised = "none"
    /\ grants = 0
    /\ breaks = 0

\* the state of the run as the machine a call works on
Now == Machine(actors, events, tick, seq, turn_counter, qcounts, resolved, emitted,
               seed_tc, cfg.has_sink)

\* A faulty test: the TURN_END of any actor counts as a boss turn.
is_any_turn_end_event(evt) == evt.type = TURN_END

\* _is_boss_turn_end_event with boss_actor = "Boss"
is_boss_turn_end_event(evt) == evt.actor = "Boss" /\ evt.type = TURN_END

\* boss_turns_seen += 1 for each boss TURN_END among the events the call
\* that led from machine m to machine m1 has recorded
new_boss_turns(m, m1) ==
    Cardinality({k \in (Len(m.events) + 1)..Len(m1.events) :
                    is_boss_turn_end_event(m1.events[k])})

\* one iteration of the loop of run_ticks on loop state s: the machine m,
\* boss_turns_seen, what the step_tick calls have returned, and done once
\* the loop has returned or a call has raised; m1 is what step_tick leaves
run_ticks_iteration(s, c) ==
    IF s.done THEN s
    ELSE CHOOSE r \in
             {IF m1.raised # "none"
              THEN [m |-> m1, seen |-> s.seen, winners |-> s.winners, done |-> TRUE]
              ELSE [m |-> m1,
                    seen |-> IF c.has_stop THEN s.seen + new_boss_turns(s.m, m1)
                             ELSE s.seen,
                    winners |-> Append(s.winners, m1.winner),
                    done |-> /\ c.has_stop
                             /\ new_boss_turns(s.m, m1) > 0
                             /\ s.seen + new_boss_turns(s.m, m1)
                                    >= c.stop_after_boss_turns] :
              m1 \in {step_tick([s.m EXCEPT !.winner = 0], c)}} : TRUE

\* for _ in range(int(ticks)): the loop state after each of the n iterations
run_ticks_loop(m, c, n) ==
    LET after[k \in 0..n] ==
            IF k = 0 THEN [m |-> m, seen |-> 0, winners |-> <<>>, done |-> FALSE]
            ELSE run_ticks_iteration(after[k - 1], c)
    IN after[IF n < 0 THEN 0 ELSE n]

\* run_ticks(actors, event_sink, ticks, ...)
run_ticks(m, c) == run_ticks_loop(m, c, c.ticks)

\* one call run_ticks(...) on the fresh sink
RunTicks ==
    /\ raised = "none"
    /\ cfg.caller = "run_ticks"
    /\ returned = <<>>
    /\ tick = 0
    /\ \E r \in {run_ticks(Now, cfg)} :
          /\ actors' = r.m.actors
          /\ events' = r.m.events
          /\ tick' = r.m.tick
          /\ seq' = r.m.seq
          /\ turn_counter' = r.m.turn_counter
          /\ qcounts' = r.m.qcounts
          /\ resolved' = r.m.resolved
          /\ emitted' = r.m.emitted
          /\ seed_tc' = r.m.seed_tc
          /\ raised' = r.m.raised
          /\ returned' = r.winners
    /\ UNCHANGED <<cfg, grants, breaks>>

\* one call step_tick(actors, event_sink, ...)
StepTick ==
    /\ raised = "none"
    /\ cfg.caller = "step_tick"
    /\ Len(returned) < MaxCalls
    /\ LET m == step_tick(Now, cfg)
       IN /\ actors' = m.actors
          /\ events' = m.events
          /\ tick' = m.tick
          /\ seq' = m.seq
          /\ turn_counter' = m.turn_counter
          /\ qcounts' = m.qcounts
          /\ resolved' = m.resolved
          /\ emitted' = m.emitted
          /\ seed_tc' = m.seed_tc
          /\ raised' = m.raised
          /\ returned' = IF m.raised = "none" THEN Append(returned, m.winner) ELSE returned
    /\ UNCHANGED <<cfg, grants, breaks>>

\* the caller records a fact on the sink itself, event_sink.emit(SKILL_CONSUMED,
\* actor=..., skill_id=...), before the first step_tick call of the run
SinkEmit(i) ==
    /\ raised = "none"
    /\ cfg.has_sink
    /\ returned = <<>>
    /\ LET m == emit(Now, SKILL_CONSUMED, actors[i].name, [skill_id |-> "A1"])
       IN /\ events' = m.events
          /\ tick' = m.tick
          /\ seq' = m.seq
          /\ raised' = m.raised
    /\ UNCHANGED <<cfg, actors, turn_counter, qcounts, resolved, emitted, seed_tc,
                   returned, grants, breaks>>

\* the caller sets actor.extra_turns between two calls
GrantExtraTurn(i) ==
    /\ raised = "none"
    /\ "grant" \in cfg.edits
    /\ grants < MaxGrants
    /\ Len(returned) < MaxCalls
    /\ actors' = [actors EXCEPT ![i].extra_turns = @ + 1]
    /\ grants' = grants + 1
    /\ UNCHANGED <<cfg, events, tick, seq, turn_counter, qcounts, resolved, emitted,
                   seed_tc, returned, raised, breaks>>

\* the caller sets boss.shield = 0 between two calls
BreakShield ==
    /\ raised = "none"
    /\ "break" \in cfg.edits
    /\ breaks < MaxBreaks
    /\ Len(returned) < MaxCalls
    /\ BossIndex(actors) # 0
    /\ actors[BossIndex(actors)].shield > 0
    /\ actors' = [actors EXCEPT ![BossIndex(actors)].shield = 0]
    /\ breaks' = breaks + 1
    /\ UNCHANGED <<cfg, events, tick, seq, turn_counter, qcounts, resolved, emitted,
                   seed_tc, returned, raised, grants>>

Next ==
    \/ StepTick
    \/ RunTicks
    \/ \E i \in 1..Len(actors) : GrantExtraTurn(i)
    \/ \E i \in {1} : SinkEmit(i)
    \/ BreakShield

Spec == Init /\ [][Next]_vars

-----------------------------------------------------------------------------
(* Observations on a step of a run, used by the properties below *)

\* the events the step recorded
NewEvents == SubSeq(events', Len(events) + 1, Len(events'))

\* the step is a step_tick call that returned
Returned == cfg.caller = "step_tick" /\ Len(returned') = Len(returned) + 1

\* the step is a step_tick call, whether it returned or raised (a call that
\* raises has recorded events by then)
IsCall ==
    /\ cfg.caller = "step_tick"
    /\ returned' # returned \/ (raised' # raised /\ events' # events)

\* the index of the actor the call returned (0 for None)
Acted == returned'[Len(returned')]

\* the call found no pending extra turn
NoExtraPending == ExtraCandidate(actors) = 0

\* event e is recorded before event f in (tick, seq) order
PairBefore(e, f) == e.tick < f.tick \/ (e.tick = f.tick /\ e.seq < f.seq)

\* the positions k of events with a WINNER_SELECTED right after FILL_COMPLETE
NormalSelections ==
    {k \in 2..Len(events) :
        events[k].type = WINNER_SELECTED /\ events[k - 1].type = FILL_COMPLETE}

\* the positions k of events with a WINNER_SELECTED right after a TURN_END:
\* an extra turn taken inside an open tick
ExtraSelections ==
    {k \in 2..Len(events) :
        events[k].type = WINNER_SELECTED /\ events[k - 1].type = TURN_END}

-----------------------------------------------------------------------------
(* C1: event ordering *)

\* C1: in every reachable state the (tick, seq) pairs of the recorded events
\* are strictly increasing in recording order (so no pair occurs twice).
EventOrderStrict ==
    \A k \in 1..(Len(events) - 1) : PairBefore(events[k], events[k + 1])

\* C1 witness: a log holding a no-winner tick, a normal turn and an extra turn
\* over three ticks or more.
EventOrderWitness ==
    /\ tick >= 3
    /\ NormalSelections # {}
    /\ ExtraSelections # {}
    /\ \E k \in 1..(Len(events) - 1) :
           events[k].type = FILL_COMPLETE /\ events[k + 1].type = TICK_START

-----------------------------------------------------------------------------
(* C3: the gate *)

\* the turn meter the returned actor had when the call selected it
SelectedMeter ==
    IF NoExtraPending THEN Fill(actors)[Acted].turn_meter ELSE actors[Acted].turn_meter

\* the selected actor was at the gate, and so says every WINNER_SELECTED recorded
GateHeld ==
    /\ SelectedMeter >= TM_GATE
    /\ \A k \in 1..Len(NewEvents) :
           NewEvents[k].type = WINNER_SELECTED
               => NewEvents[k].data.pre_reset_tm >= TM_GATE

\* C3 as stated: every call that gives an actor a turn selected it with
\* turn_meter + EPS >= TM_GATE.
ActsOnlyAtGate == [][Returned /\ Acted # 0 => GateHeld]_vars

\* C3 amended: every call that finds no pending extra turn and gives an actor a
\* turn selected it with turn_meter + EPS >= TM_GATE (an actor with
\* extra_turns > 0 acts whatever its turn meter is).
ActsOnlyAtGateUnlessExtraTurn ==
    [][Returned /\ Acted # 0 /\ NoExtraPending => GateHeld]_vars

\* C3 witness: a normal turn whose actor was selected above the gate, in a run
\* that also took an extra turn below it.
GateWitness ==
    /\ \E k \in NormalSelections : events[k].data.pre_reset_tm > TM_GATE
    /\ \E k \in ExtraSelections : events[k].data.pre_reset_tm < TM_GATE

-----------------------------------------------------------------------------
(* C4: the reset *)

RECURSIVE ProcBonus(_, _)
\* the turn meter the MASTERY_PROC events of evs granted to the holder name
ProcBonus(evs, name) ==
    IF evs = <<>> THEN 0
    ELSE (IF Head(evs).type = MASTERY_PROC /\ Head(evs).data.holder = name
          THEN MasteryBonus(Head(evs).data.count) ELSE 0)
         + ProcBonus(Tail(evs), name)

\* C4: after every call that gives an actor a turn, that actor's turn meter is
\* 0 plus the mastery-proc bonus granted to it during the turn: nothing of the
\* meter it was selected with is carried forward.
ResetToZeroPlusBonus ==
    [][Returned /\ Acted # 0
          => actors'[Acted].turn_meter = ProcBonus(NewEvents, actors[Acted].name)]_vars

\* the last turn of the log starts at position k
LastSelection(k) ==
    /\ events[k].type = WINNER_SELECTED
    /\ \A j \in (k + 1)..Len(events) : events[j].type # WINNER_SELECTED
    /\ events[Len(events)].type = TURN_END

\* C4 witness: the turn just ended was taken above the gate and a mastery proc
\* of the acting actor fired in it; its meter is the bonus alone.
ResetWitness ==
    \E k \in 1..Len(events) :
        /\ LastSelection(k)
        /\ events[k].data.pre_reset_tm > TM_GATE
        /\ \E j \in (k + 1)..Len(events) :
               /\ events[j].type = MASTERY_PROC
               /\ events[j].data.holder = events[k].actor
               /\ actors[events[k].data.actor_index].turn_meter
                      = MasteryBonus(events[j].data.count)

-----------------------------------------------------------------------------
(* C5: winner selection *)

\* the key (turn_meter, speed, -index) of i is strictly above that of j
KeyAbove(as, i, j) ==
    \/ as[i].turn_meter > as[j].turn_meter
    \/ /\ as[i].turn_meter = as[j].turn_meter
       /\ \/ as[i].speed > as[j].speed
          \/ as[i].speed = as[j].speed /\ i < j

\* the acting actor is the eligible one with the highest key after the fill, no
\* second turn is opened and no other actor's meter is touched by a reset
HighestKeyAlone(filled) ==
    LET ready == {i \in 1..Len(filled) : filled[i].turn_meter >= TM_GATE}
    IN /\ Acted # 0 =>
              /\ Acted \in ready
              /\ \A j \in ready \ {Acted} : KeyAbove(filled, Acted, j)
       /\ Cardinality({k \in 1..Len(NewEvents) : NewEvents[k].type = TURN_START}) <= 1
       /\ Cardinality({k \in 1..Len(NewEvents) : NewEvents[k].type = WINNER_SELECTED}) <= 1
       /\ \A j \in (1..Len(filled)) \ {Acted} :
              actors'[j].turn_meter >= filled[j].turn_meter

\* C5: in a call with no pending extra turn the one actor that acts is, among
\* the actors eligible after the fill, the one with the highest turn meter,
\* then the higher speed, then the earlier place in the list; no other acts.
HighestKeyActsAlone ==
    [][Returned /\ NoExtraPending => HighestKeyAlone(Fill(actors))]_vars

\* C5 witness: a selection among three actors with equal meters after the
\* fill, one slower than the winner and one as fast but later in the list.
TieBreakWitness ==
    \E k \in NormalSelections :
        LET w == events[k].data.actor_index
            meters == events[k - 1].data.meters
        IN \E i, j \in DOMAIN meters :
               /\ meters[i] = meters[w] /\ meters[j] = meters[w]
               /\ actors[i].speed = actors[w].speed /\ w < i
               /\ actors[j].speed < actors[w].speed

-----------------------------------------------------------------------------
(* C6: the tick sheet *)

\* what each of the ten calls returns on the sheet team (0 for None), as
\* test_sequence_through_tick_10_matches_tick_sheet expects it
TickSheet == <<0, 0, 0, 0, 1, 2, 3, 4, 5, 6>>

\* C6: on the sheet team (speeds 340, 282, 270, 265, 252, 250, meters 0, no
\* effects) with no extra turn granted, the first four calls return no actor
\* and calls five to ten return the actors in list order, each TURN_START
\* recorded on the tick of its call.
SheetSequence ==
    cfg.team = SheetTeam /\ grants = 0 =>
        /\ \A k \in 1..Len(returned) :
               k <= Len(TickSheet) => returned[k] = TickSheet[k]
        /\ \A k \in 1..Len(events) :
               events[k].type = TURN_START /\ events[k].tick <= Len(TickSheet)
                   => events[k].data.actor_index = TickSheet[events[k].tick]

\* C6 witness: ten calls made on the sheet team with a sink, the boss last.
SheetWitness ==
    /\ cfg.team = SheetTeam /\ cfg.has_sink /\ grants = 0
    /\ Len(returned) = Len(TickSheet)
    /\ tick = Len(TickSheet)
    /\ actors[returned[Len(returned)]].name = "Boss"

-----------------------------------------------------------------------------
(* C7: the extra-turn clock *)

\* C7: a call made when a tick is open and some actor has extra_turns > 0
\* leaves the sink's tick as it is, records no TICK_START and records every
\* event under that tick.
ExtraTurnKeepsTick ==
    [][tick >= 1 /\ ~NoExtraPending /\ IsCall =>
           /\ tick' = tick
           /\ \A k \in 1..Len(NewEvents) :
                  NewEvents[k].type # TICK_START /\ NewEvents[k].tick = tick]_vars

\* C7 witness: the last turn of the log is an extra turn taken on the tick
\* the turn before it ended on.
ExtraTurnWitness ==
    \E k \in ExtraSelections :
        /\ LastSelection(k)
        /\ events[k].tick = events[k - 1].tick
        /\ tick = events[k].tick
        /\ events[Len(events)].tick = tick

-----------------------------------------------------------------------------
(* C8: the placement-turn duration guard *)

\* actor a holds the instance iid with duration d
HasInstance(a, iid, d) ==
    \E k \in 1..Len(a.active_effects) :
        a.active_effects[k].instance_id = iid /\ a.active_effects[k].duration = d

\* every BUFF the step placed has, after the step, the duration it was placed with
PlacedDurationsKept ==
    \A k \in 1..Len(NewEvents) :
        NewEvents[k].type = EFFECT_APPLIED /\ "instance_id" \in DOMAIN NewEvents[k].data
            => HasInstance(actors'[IndexOfName(actors', NewEvents[k].data.owner)],
                           NewEvents[k].data.instance_id, NewEvents[k].data.duration)

\* the turns the step added to the instance iid by B_A2
Extended(iid) ==
    Cardinality({k \in 1..Len(NewEvents) :
                    /\ NewEvents[k].type = EFFECT_DURATION_CHANGED
                    /\ NewEvents[k].data.reason = "B_A2"
                    /\ NewEvents[k].data.instance_id = iid})

\* the step removed the instance iid through an injected expiration
InjectedAway(iid) ==
    \E k \in 1..Len(NewEvents) :
        /\ NewEvents[k].type = EFFECT_EXPIRED
        /\ "instance_id" \in DOMAIN NewEvents[k].data
        /\ NewEvents[k].data.reason = "injected"
        /\ NewEvents[k].data.instance_id = iid

\* every BUFF the acting actor held before its turn with duration > 0 loses
\* one turn at this TURN_END; one that reaches 0 is removed when there is a sink
OwnerDurationsDecremented ==
    \A k \in 1..Len(actors[Acted].active_effects) :
        LET fx == actors[Acted].active_effects[k]
            d == fx.duration + Extended(fx.instance_id) - 1
        IN fx.effect_kind = "BUFF" /\ fx.duration > 0 /\ ~InjectedAway(fx.instance_id)
               => IF d > 0 \/ ~cfg.has_sink
                  THEN HasInstance(actors'[Acted], fx.instance_id, d)
                  ELSE \A j \in 1..Len(actors'[Acted].active_effects) :
                           actors'[Acted].active_effects[j].instance_id # fx.instance_id

\* C8: a BUFF placed during a turn has, after that turn's TURN_END, the
\* duration it was placed with on every actor it was placed on; a BUFF placed
\* in an earlier turn is decremented at the TURN_END of its owner.
PlacementTurnGuard ==
    [][Returned /\ Acted # 0 => PlacedDurationsKept /\ OwnerDurationsDecremented]_vars

\* C8 witness: a BUFF placed on the acting actor itself, that actor's TURN_END
\* of the placement turn, and later the first tick_decrement of the instance
\* from the duration it was placed with.
PlacementWitness ==
    \E k, t, j \in 1..Len(events) :
        /\ k < t /\ t < j
        /\ events[k].type = EFFECT_APPLIED /\ "instance_id" \in DOMAIN events[k].data
        /\ events[k].data.owner = events[k].actor
        /\ events[t].type = TURN_END /\ events[t].actor = events[k].data.owner
        /\ events[j].type = EFFECT_DURATION_CHANGED
        /\ events[j].data.reason = "tick_decrement"
        /\ events[j].data.instance_id = events[k].data.instance_id
        /\ events[j].data.duration_before = events[k].data.duration

-----------------------------------------------------------------------------
(* C9: no silent drop of a mastery proc request *)

\* the MASTERY_PROC and MASTERY_PROC_REJECTED events recorded for holder h
\* (a run declares requests for one (holder, step) at most)
ProcOutcomes(h) ==
    {k \in 1..Len(events) :
        /\ events[k].type \in {MASTERY_PROC, MASTERY_PROC_REJECTED}
        /\ events[k].data.holder = h}

\* the holder of the key has consumed the skill of the key's step, in a call
\* that returned
StepReached(key) ==
    /\ raised = "none"
    /\ IndexOfName(actors, key[1]) # 0
    /\ actors[IndexOfName(actors, key[1])].skill_sequence_cursor >= key[2]

\* C9: for every (holder, step) with a declared proc request whose step the
\* holder has reached, the log holds exactly one MASTERY_PROC or
\* MASTERY_PROC_REJECTED of that holder: not none, not two.
ExactlyOneProcOutcome ==
    \A key \in DOMAIN cfg.requests :
        StepReached(key) => Cardinality(ProcOutcomes(key[1])) = 1

-----------------------------------------------------------------------------
(* C10: the boss shield floor *)

\* C10: no actor's shield is ever below 0, and every boss_shield_value of a
\* TURN_START or TURN_END event is at least 0.
ShieldNeverNegative ==
    /\ \A i \in 1..Len(actors) : actors[i].shield >= 0
    /\ \A k \in 1..Len(events) :
           events[k].type \in {TURN_START, TURN_END}
               => events[k].data.boss_shield_value >= 0

\* C10 witness: a turn opened with the shield up and closed with it at 0, the
\* hits of the turn being more than the shield it opened with.
ShieldFloorWitness ==
    \E k \in 1..(Len(events) - 1) :
        /\ events[k].type = TURN_START
        /\ events[k].data.boss_shield_value > 0
        /\ cfg.provider = "counts"
        /\ SumOver(cfg.hits_by_actor, DOMAIN cfg.hits_by_actor)
               > events[k].data.boss_shield_value
        /\ \E j \in (k + 1)..Len(events) :
               /\ events[j].type = TURN_END
               /\ events[j].data.boss_shield_value = 0
               /\ \A i \in (k + 1)..(j - 1) : events[i].type # TURN_START

-----------------------------------------------------------------------------
(* C11: dumping and reloading the event log *)

\* the events of evs the dump-time normalization never moves inside a frame
Unmoved(evs) == OfTypes(evs, EventTypeValues \ {EFFECT_EXPIRED, MASTERY_PROC})

\* what identifies the fact at position k of evs
FactKey(evs, k) == <<evs[k].tick, evs[k].seq, evs[k].type, evs[k].actor>>

\* loaded holds the facts of evs: as many events, the same facts with the same
\* data, and the events outside the normalization in the same order
SameFacts(loaded, evs) ==
    /\ Len(loaded) = Len(evs)
    /\ {FactKey(loaded, k) : k \in 1..Len(loaded)} = {FactKey(evs, k) : k \in 1..Len(evs)}
    /\ [k \in 1..Len(Unmoved(loaded)) |-> FactKey(Unmoved(loaded), k)]
           = [k \in 1..Len(Unmoved(evs)) |-> FactKey(Unmoved(evs), k)]
    /\ \A i \in 1..Len(loaded) : \A j \in 1..Len(evs) :
           FactKey(loaded, i) = FactKey(evs, j) => loaded[i].data = evs[j].data

\* C11: the log of every run, dumped by dump_event_stream and read back by
\* load_event_stream, passes the loader's checks (tick >= 1, seq >= 1, strictly
\* increasing (tick, seq)) and yields the same facts, in the same order apart
\* from the reordering of a frame's expirations and procs.
RoundTripLoads ==
    /\ load_event_stream(dump_event_stream(events)).ok
    /\ SameFacts(load_event_stream(dump_event_stream(events)).events, events)

-----------------------------------------------------------------------------
(* C12: extra-turn preemption *)

\* the step filled no turn meter: the acting actor x is left at 0, every other
\* actor where it was, each plus the mastery-proc bonus granted in the step
NoMeterFilled(x) ==
    \A j \in 1..Len(actors) :
        actors'[j].turn_meter =
            (IF j = x THEN 0 ELSE actors[j].turn_meter)
                + ProcBonus(NewEvents, actors[j].name)

\* the extra turns the skill consumed in the step granted to the acting actor x
\* (Mikage's Metamorph)
MetamorphGrant(x) ==
    IF /\ actors'[x].skill_sequence_cursor = actors[x].skill_sequence_cursor + 1
       /\ IsMikageName(actors[x].name)
       /\ LastSkill(actors'[x]) \in {"A_A4", "B_A4", "METAMORPH"}
    THEN 1 ELSE 0

\* what C12 says of a returning call made when some actor has extra_turns > 0,
\* the acting actor ending the step with extra_turns one less plus `granted`
Preempted(granted) ==
    /\ Acted # 0
    /\ actors[Acted].extra_turns > 0
    /\ \A j \in 1..(Acted - 1) : actors[j].extra_turns <= 0
    /\ actors'[Acted].extra_turns = actors[Acted].extra_turns - 1 + granted
    /\ \A j \in 1..Len(actors) :
           /\ actors'[j].extra_turns >= 0
           /\ j # Acted => actors'[j].extra_turns = actors[j].extra_turns
    /\ NoMeterFilled(Acted)
    /\ \A k \in 1..Len(NewEvents) : NewEvents[k].type # FILL_COMPLETE

\* C12 as stated: a call that is made when some actor has extra_turns > 0, and
\* returns, returns the first such actor of the list, leaves it with exactly
\* one extra turn less (0 or more) and every other actor's extra turns as they
\* were, fills no turn meter and records no FILL_COMPLETE.
ExtraTurnPreempts ==
    [][Returned /\ ~NoExtraPending => Preempted(0)]_vars

\* C12 amended: the same, the acting actor being left with one extra turn less
\* plus the extra turn the skill it consumed in that turn granted it (Mikage's
\* Metamorph grants one).
ExtraTurnPreemptsNetOfGrant ==
    [][Returned /\ ~NoExtraPending => Preempted(MetamorphGrant(Acted))]_vars

\* C12 witness: the first call of a run found extra turns owed to the second
\* and the third actor; the second acted, the third is still owed its turn, the
\* first actor's meter is where it started and the log has no FILL_COMPLETE.
PreemptWitness ==
    /\ cfg.has_sink
    /\ cfg.team[2].extra_turns = 1 /\ cfg.team[3].extra_turns = 1
    /\ returned = <<2>>
    /\ actors[2].extra_turns = 0 /\ actors[3].extra_turns = 1
    /\ actors[1].turn_meter = cfg.team[1].turn_meter
    /\ \E k \in 1..Len(events) : events[k].type = TURN_END
    /\ \A k \in 1..Len(events) : events[k].type # FILL_COMPLETE

-----------------------------------------------------------------------------
(* C13: the turn-bracket protocol *)

\* the event types that belong inside a turn
InsideTypes ==
    {EFFECT_TRIGGERED, EFFECT_APPLIED, EFFECT_DURATION_SET, EFFECT_DURATION_CHANGED,
     EFFECT_EXPIRED, MASTERY_PROC, MASTERY_PROC_REJECTED, SKILL_CONSUMED}

\* the TURN_START at k is closed at j by the TURN_END of the same actor, and
\* nothing that opens or closes a turn or a step lies between them
ClosedAt(evs, k, j) ==
    /\ evs[j].type = TURN_END
    /\ evs[j].actor = evs[k].actor
    /\ \A i \in (k + 1)..(j - 1) :
           evs[i].type \notin {TURN_START, TURN_END, TICK_START, WINNER_SELECTED}

\* every TURN_START is closed, every TURN_END closes one, and every event of a
\* type in InsideTypes lies strictly inside a bracket
Bracketed(evs) ==
    /\ \A k \in 1..Len(evs) :
           evs[k].type = TURN_START => \E j \in (k + 1)..Len(evs) : ClosedAt(evs, k, j)
    /\ \A j \in 1..Len(evs) :
           evs[j].type = TURN_END =>
               \E k \in 1..(j - 1) : evs[k].type = TURN_START /\ ClosedAt(evs, k, j)
    /\ \A i \in 1..Len(evs) :
           evs[i].type \in InsideTypes =>
               \E k \in 1..(i - 1) : \E j \in (i + 1)..Len(evs) :
                   evs[k].type = TURN_START /\ ClosedAt(evs, k, j)

\* the events of a step in which actor x acted: one WINNER_SELECTED, then
\* RESET_APPLIED, then TURN_START, and one TURN_END, the last event
ActingStepShape(evs, x) ==
    /\ Len(evs) >= 4
    /\ evs[Len(evs)].type = TURN_END
    /\ \E k \in 1..(Len(evs) - 3) :
           /\ evs[k].type = WINNER_SELECTED
           /\ evs[k + 1].type = RESET_APPLIED
           /\ evs[k + 2].type = TURN_START
           /\ \A i \in {k, k + 1, k + 2, Len(evs)} :
                  evs[i].actor = actors[x].name /\ evs[i].data.actor_index = x
           /\ \A i \in 1..Len(evs) :
                  evs[i].type \in {WINNER_SELECTED, RESET_APPLIED, TURN_START, TURN_END}
                      => i \in {k, k + 1, k + 2, Len(evs)}

-----------------------------------------------------------------------------
(* C14: the step without a winner *)

\* the turn meter of actor a after one fill
FilledMeter(a) ==
    a.turn_meter
        + (a.speed * a.speed_multiplier * speed_multiplier_from_effects(a.effects))
              \div 10000

\* the types of the events the step recorded, in order
NewTypes == [k \in 1..Len(NewEvents) |-> NewEvents[k].type]

\* C14: a call that finds no actor with extra_turns > 0 and, after the fill,
\* no actor at the gate returns None, records TICK_START and FILL_COMPLETE and
\* nothing else, and changes nothing of any actor but the turn meter, which is
\* the filled value for every actor (none is reset, none is capped).
NoWinnerStep ==
    [][IsCall /\ NoExtraPending
              /\ (\A i \in 1..Len(actors) : FilledMeter(actors[i]) < TM_GATE) =>
           /\ Returned
           /\ Acted = 0
           /\ NewTypes = IF cfg.has_sink THEN <<TICK_START, FILL_COMPLETE>> ELSE <<>>
           /\ actors' = [i \in 1..Len(actors) |->
                            [actors[i] EXCEPT !.turn_meter = FilledMeter(actors[i])]]]_vars

\* C14 witness: two calls in a row returned None and an actor's meter is twice
\* its speed above where it started; the log holds their four events.
NoWinnerWitness ==
    /\ cfg.has_sink
    /\ returned = <<0, 0>>
    /\ [k \in 1..Len(events) |-> events[k].type]
           = <<TICK_START, FILL_COMPLETE, TICK_START, FILL_COMPLETE>>
    /\ \A i \in 1..Len(actors) :
           /\ actors[i].turn_meter = cfg.team[i].turn_meter + 2 * actors[i].speed
           /\ actors[i].turn_meter < TM_GATE

-----------------------------------------------------------------------------
(* C15: the boss shield reset *)

\* the event at k is the TURN_START of a boss that has a shield_max
BossTurnStart(k) ==
    /\ events[k].type = TURN_START
    /\ actors[events[k].data.actor_index].is_boss
    /\ actors[events[k].data.actor_index].shield_max # NoShieldMax

\* C15: every TURN_START recorded for a boss that has a shield_max carries
\* boss_shield_value = shield_max (and the status that goes with it), whatever
\* the shield was when the turn before it ended.
BossTurnStartsAtShieldMax ==
    \A k \in 1..Len(events) :
        BossTurnStart(k) =>
            /\ events[k].data.boss_shield_value
                   = actors[events[k].data.actor_index].shield_max
            /\ events[k].data.boss_shield_status
                   = ShieldStatus(actors[events[k].data.actor_index].shield_max)

\* C15 witness: a turn ended with the boss shield at 0 and the next turn is
\* the boss's, opened with the shield back at shield_max.
ShieldResetWitness ==
    \E k \in 2..Len(events) :
        /\ BossTurnStart(k)
        /\ events[k].data.boss_shield_value > 0
        /\ \E j \in 1..(k - 1) :
               /\ events[j].type = TURN_END
               /\ events[j].data.has_shield
               /\ events[j].data.boss_shield_value = 0
               /\ \A i \in (j + 1)..(k - 1) : events[i].type \notin {TURN_START, TURN_END}

-----------------------------------------------------------------------------
(* C16: POISON *)

\* the POISON effects among effs that still have turns remaining, in order
LivePoisons(effs) ==
    FilterSeq(effs, {k \in 1..Len(effs) :
                        effs[k].kind = POISON /\ effs[k].turns_remaining > 0})

\* ps one turn of its owner later: each a turn shorter, those at 0 removed
OneTurnLater(ps) ==
    FilterSeq([k \in 1..Len(ps) |-> [ps[k] EXCEPT !.turns_remaining = @ - 1]],
              {k \in 1..Len(ps) : ps[k].turns_remaining > 1})

\* the positions in the step's events of the EFFECT_TRIGGERED of a POISON
PoisonTriggers ==
    {k \in 1..Len(NewEvents) :
        NewEvents[k].type = EFFECT_TRIGGERED /\ NewEvents[k].data.effect = POISON}

\* the positions in the step's events of the EFFECT_EXPIRED of a POISON
PoisonExpirations ==
    {k \in 1..Len(NewEvents) :
        /\ NewEvents[k].type = EFFECT_EXPIRED
        /\ "effect" \in DOMAIN NewEvents[k].data
        /\ NewEvents[k].data.effect = POISON}

\* each live POISON of ps has its own EFFECT_TRIGGERED, with its magnitude
TriggeredEach(ps) ==
    /\ Cardinality(PoisonTriggers) = Len(ps)
    /\ \A i \in 1..Len(ps) :
           \E k \in PoisonTriggers : NewEvents[k].data.amount = ps[i].magnitude

\* the live POISONs of ps trigger together when their owner has a health model
\* (max_hp > 0): one EFFECT_TRIGGERED with the sum of their magnitudes; none
\* is recorded for an owner without one
TriggeredTogether(ps, max_hp) ==
    IF ps # <<>> /\ max_hp > 0
    THEN /\ Cardinality(PoisonTriggers) = 1
         /\ \A k \in PoisonTriggers :
                NewEvents[k].data.amount
                    = SumSeq([i \in 1..Len(ps) |-> ps[i].magnitude])
    ELSE PoisonTriggers = {}

\* what a returning call does to POISON: the poisons of the actors that did
\* not act are as they were; those of the acting actor are one turn shorter,
\* the ones that reached 0 removed; with a sink, the triggers are recorded as
\* `triggered` says, after TURN_START, followed by one EFFECT_EXPIRED for each
\* removed POISON, all before the TURN_END that ends the step
PoisonStep(triggered) ==
    /\ \A i \in 1..Len(actors) :
           i # Acted => LivePoisons(actors'[i].effects) = LivePoisons(actors[i].effects)
    /\ Acted # 0 =>
           /\ LivePoisons(actors'[Acted].effects)
                  = OneTurnLater(LivePoisons(actors[Acted].effects))
           /\ cfg.has_sink =>
                  /\ triggered
                  /\ Cardinality(PoisonExpirations)
                         = Len(LivePoisons(actors[Acted].effects))
                               - Len(LivePoisons(actors'[Acted].effects))
                  /\ \A k \in PoisonTriggers \cup PoisonExpirations :
                         /\ k < Len(NewEvents)
                         /\ NewEvents[Len(NewEvents)].type = TURN_END
                         /\ \E j \in 1..(k - 1) : NewEvents[j].type = TURN_START
                  /\ \A k \in PoisonTriggers : \A j \in PoisonExpirations : k < j
    /\ Acted = 0 => PoisonTriggers = {} /\ PoisonExpirations = {}

-----------------------------------------------------------------------------
(* C17: whose turn changes a BUFF duration *)

\* the change of duration, over the step, of the BUFF instances that actor i
\* holds before and after it, as a set of <<instance_id, before, after>>
DurationChanges(i) ==
    {<<actors[i].active_effects[k].instance_id,
       actors[i].active_effects[k].duration,
       actors'[i].active_effects[j].duration>> :
        <<k, j>> \in {p \in (1..Len(actors[i].active_effects))
                               \X (1..Len(actors'[i].active_effects)) :
                         /\ actors[i].active_effects[p[1]].effect_kind = "BUFF"
                         /\ actors'[i].active_effects[p[2]].instance_id
                                = actors[i].active_effects[p[1]].instance_id}}

\* C17 as stated: over a step a BUFF duration changes only on the acting
\* actor, and then by exactly -1; the instances of every other actor, and all
\* instances in a step without a winner, keep their duration.
DurationChangesOnOwnerTurnOnly ==
    [][Returned =>
           \A i \in 1..Len(actors) : \A c \in DurationChanges(i) :
               c[3] # c[2] => i = Acted /\ c[3] = c[2] - 1]_vars

\* C17 amended: over a step a BUFF duration changes by the turns Mikage's B_A2
\* added to it in that step (one per EFFECT_DURATION_CHANGED with reason B_A2,
\* recorded by the acting Mikage) less the one turn it loses at the TURN_END
\* when the acting actor is its owner; nothing else changes a duration.
DurationChangesByOwnerTurnOrExtension ==
    [][Returned =>
           \A i \in 1..Len(actors) : \A c \in DurationChanges(i) :
               /\ c[3] - c[2] \in {Extended(c[1]), Extended(c[1]) - 1}
               /\ c[3] - c[2] # Extended(c[1]) => i = Acted
               /\ Extended(c[1]) # 0 => Acted # 0 /\ IsMikageName(actors[Acted].name)]_vars

\* C17 witness: B_A2 has extended a BUFF of an actor other than Mikage during
\* Mikage's turn, and a BUFF has lost a turn at its owner's TURN_END.
DurationWitness ==
    /\ \E k \in 1..Len(events) :
           /\ events[k].type = EFFECT_DURATION_CHANGED
           /\ events[k].data.reason = "B_A2"
           /\ events[k].data.owner # events[k].actor
    /\ \E k \in 1..Len(events) :
           /\ events[k].type = EFFECT_DURATION_CHANGED
           /\ events[k].data.reason = "tick_decrement"
           /\ events[k].data.owner = events[k].actor

-----------------------------------------------------------------------------
(* C18: no BUFF is left expired but present *)

\* no actor of as carries a BUFF instance with duration 0 or less
NoSpentBuff(as) ==
    \A i \in 1..Len(as) : \A k \in 1..Len(as[i].active_effects) :
        as[i].active_effects[k].effect_kind = "BUFF" => as[i].active_effects[k].duration > 0

\* the positions in the step's events of the engine-owned expirations of iid
ExpiredAtZero(iid) ==
    {k \in 1..Len(NewEvents) :
        /\ NewEvents[k].type = EFFECT_EXPIRED
        /\ "instance_id" \in DOMAIN NewEvents[k].data
        /\ NewEvents[k].data.instance_id = iid
        /\ NewEvents[k].data.reason = "duration_reached_zero"}

\* the BUFF instances of the acting actor, held before the step with a
\* positive duration, that the step's TURN_END decrement brings to 0
ReachZero ==
    {k \in 1..Len(actors[Acted].active_effects) :
        /\ actors[Acted].active_effects[k].effect_kind = "BUFF"
        /\ actors[Acted].active_effects[k].duration > 0
        /\ ~InjectedAway(actors[Acted].active_effects[k].instance_id)
        /\ actors[Acted].active_effects[k].duration
               + Extended(actors[Acted].active_effects[k].instance_id) = 1}

\* the instance that reached 0 is gone, and recorded once before TURN_END
RemovedAndRecorded(iid) ==
    /\ \A j \in 1..Len(actors'[Acted].active_effects) :
           actors'[Acted].active_effects[j].instance_id # iid
    /\ Cardinality(ExpiredAtZero(iid)) = 1
    /\ \A k \in ExpiredAtZero(iid) :
           k < Len(NewEvents) /\ NewEvents[Len(NewEvents)].type = TURN_END

\* C18: after every completed step no actor carries a BUFF instance with
\* duration 0 or less; an instance that reaches 0 at a TURN_END is removed in
\* that step, with exactly one EFFECT_EXPIRED (duration_reached_zero) recorded
\* for it before the TURN_END event.
NoExpiredButPresent ==
    [][Returned =>
           /\ NoSpentBuff(actors')
           /\ Acted # 0 =>
                  \A k \in ReachZero :
                      RemovedAndRecorded(actors[Acted].active_effects[k].instance_id)]_vars

\* C18 on the runs that record their events: the same statement, for a step
\* taken with an event sink.
NoExpiredButPresentWithSink ==
    [][Returned /\ cfg.has_sink =>
           /\ NoSpentBuff(actors')
           /\ Acted # 0 =>
                  \A k \in ReachZero :
                      RemovedAndRecorded(actors[Acted].active_effects[k].instance_id)]_vars

-----------------------------------------------------------------------------
(* C19: the success path of the guarded mastery resolution *)

\* the total count the request declared for key asks of rapid_response
RequestedTotal(key) ==
    TallyRequests(cfg.requests[key], key[1]).requested_total

\* the step is the one in which the guarded resolution decides key: the step
\* ran a turn with a sink and a requester, key was undecided before it, and
\* after it the key's qualifying expiration count is positive
DecidedNow(key) ==
    /\ Returned /\ Acted # 0
    /\ cfg.has_sink /\ cfg.requester # "none"
    /\ TallyRequests(cfg.requests[key], key[1]).has_request
    /\ key \notin resolved
    /\ Get(qcounts', key) > 0

\* the positions in evs of the MASTERY_PROC events of holder h
ProcsOf(evs, h) ==
    {k \in 1..Len(evs) : evs[k].type = MASTERY_PROC /\ evs[k].data.holder = h}

\* the turn meter of actor i after the step, before any mastery bonus
MeterWithoutBonus(i) ==
    IF i = Acted THEN 0
    ELSE IF NoExtraPending THEN FilledMeter(actors[i])
    ELSE actors[i].turn_meter

\* what C19 says of the step that decides key with Q = q
SuccessOutcome(key, q) ==
    /\ Cardinality(ProcsOf(events', key[1])) = 1
    /\ \A k \in ProcsOf(events', key[1]) :
           /\ k > Len(events)
           /\ "resolution_step" \in DOMAIN events'[k].data
           /\ events'[k].data.count = q
           /\ events'[k].data.qualifying_expiration_count = q
           /\ events'[k].data.resolution_phase = StrEventType(TURN_END)
           /\ events'[k].data.resolution_step = key[2]
           /\ \E j \in (k + 1)..Len(events') : events'[j].type = TURN_END
    /\ actors'[IndexOfName(actors, key[1])].turn_meter
           = MeterWithoutBonus(IndexOfName(actors, key[1])) + 143 * q

\* C19: in the step that decides a requested key whose requested total equals
\* its qualifying expiration count Q, the log gets the one MASTERY_PROC of that
\* key, with count = Q, qualifying_expiration_count = Q, resolution_phase =
\* TURN_END and resolution_step = step, before the TURN_END event, and the
\* holder's turn meter gets 143 per count.
ProcSuccessPath ==
    [][\A key \in DOMAIN cfg.requests :
           DecidedNow(key) /\ RequestedTotal(key) = Get(qcounts', key)
               => SuccessOutcome(key, Get(qcounts', key))]_vars

\* C19 for a requester that is a plain callable (no TURN_START emission)
ProcSuccessPathPlain ==
    [][\A key \in DOMAIN cfg.requests :
           cfg.requester = "plain"
               /\ DecidedNow(key) /\ RequestedTotal(key) = Get(qcounts', key)
               => SuccessOutcome(key, Get(qcounts', key))]_vars

\* a success of the guarded resolution is in the log: a MASTERY_PROC with
\* qualifying_expiration_count equal to its count
ProcSuccessWitness ==
    \E k \in 1..Len(events) :
        /\ events[k].type = MASTERY_PROC
        /\ "resolution_step" \in DOMAIN events[k].data
        /\ events[k].data.count = events[k].data.qualifying_expiration_count
        /\ cfg.requester = "plain"

-----------------------------------------------------------------------------
(* C20: the mismatch path of the guarded mastery resolution *)

\* the total count of the items declared for key that name its holder
DeclaredTotal(key) ==
    SumOver([k \in 1..Len(cfg.requests[key]) |-> cfg.requests[key][k].count],
            {k \in 1..Len(cfg.requests[key]) : cfg.requests[key][k].holder = key[1]})

\* the step ends a turn, recorded and with a requester, at whose TURN_END the
\* holder of key stands on the key's step and key has not been decided before
Undecided(key) ==
    /\ Returned /\ Acted # 0
    /\ cfg.has_sink /\ cfg.requester # "none"
    /\ IndexOfName(actors, key[1]) # 0
    /\ actors'[IndexOfName(actors, key[1])].skill_sequence_cursor = key[2]
    /\ key \notin resolved

\* what C20 says of the step that decides key with Q = q
MismatchOutcome(key, q) ==
    /\ \E k \in 1..Len(NewEvents) :
           /\ NewEvents[k].type = MASTERY_PROC_REJECTED
           /\ NewEvents[k].data.holder = key[1]
           /\ NewEvents[k].data.requested_count = DeclaredTotal(key)
           /\ NewEvents[k].data.qualifying_count = q
           /\ "reason" \in DOMAIN NewEvents[k].data
    /\ ProcsOf(events', key[1]) = {}
    /\ actors'[IndexOfName(actors, key[1])].turn_meter
           = MeterWithoutBonus(IndexOfName(actors, key[1]))

\* C20: at the TURN_END that decides a requested key whose requested total
\* differs from its qualifying expiration count Q (larger, smaller, or Q = 0),
\* a MASTERY_PROC_REJECTED with requested_count, qualifying_count and a reason
\* is recorded, the log holds no MASTERY_PROC of that key, and the holder's turn
\* meter gets no bonus.
ProcMismatchPath ==
    [][\A key \in DOMAIN cfg.requests :
           Undecided(key) /\ DeclaredTotal(key) # Get(qcounts', key)
               => MismatchOutcome(key, Get(qcounts', key))]_vars

\* C20 where the code rejects: a plain callable requester, Mikage's
\* rapid_response, and a requested total above Q (Q = 0 included)
ProcMismatchPathExceeding ==
    [][\A key \in DOMAIN cfg.requests :
           cfg.requester = "plain" /\ key[1] = "Mikage"
               /\ Undecided(key) /\ DeclaredTotal(key) > Get(qcounts', key)
               => MismatchOutcome(key, Get(qcounts', key))]_vars

\* a requested total below Q > 0 is granted as requested: one MASTERY_PROC
\* with count = requested, and no rejection
ProcBelowQualifyingGranted ==
    [][\A key \in DOMAIN cfg.requests :
           cfg.requester = "plain" /\ key[1] = "Mikage"
               /\ Undecided(key) /\ DeclaredTotal(key) < Get(qcounts', key)
               => /\ \A k \in 1..Len(NewEvents) :
                         NewEvents[k].type # MASTERY_PROC_REJECTED
                  /\ Cardinality(ProcsOf(events', key[1])) = 1
                  /\ \A k \in ProcsOf(events', key[1]) :
                         events'[k].data.count = DeclaredTotal(key)]_vars

\* a requested total below Q has been granted
ProcBelowQualifyingWitness ==
    \E k \in 1..Len(events) :
        /\ events[k].type = MASTERY_PROC
        /\ "qualifying_expiration_count" \in DOMAIN events[k].data
        /\ events[k].data.count < events[k].data.qualifying_expiration_count

-----------------------------------------------------------------------------
(* C21: qualifying expirations nobody asked about *)

\* the run declares no proc request for key
Unrequested(key) == cfg.requester = "none" \/ key \notin DOMAIN cfg.requests

\* the keys whose qualifying expiration count the step raised
CountedNow == {key \in DOMAIN qcounts' : Get(qcounts', key) > Get(qcounts, key)}

\* the positions in evs of the proc outcomes the guarded resolution recorded
\* for key
ResolvedOutcomes(evs, key) ==
    {k \in 1..Len(evs) :
        /\ evs[k].type \in {MASTERY_PROC, MASTERY_PROC_REJECTED}
        /\ evs[k].data.holder = key[1]
        /\ "resolution_step" \in DOMAIN evs[k].data
        /\ evs[k].data.resolution_step = key[2]}

\* C21: a call that counts qualifying expirations for a (holder, step) with no
\* declared request returns, records no MASTERY_PROC and no
\* MASTERY_PROC_REJECTED of that holder, and gives the holder no bonus; the
\* log never holds a resolved outcome for such a key.
UnrequestedKeySilent ==
    [][IsCall =>
           \A key \in CountedNow :
               Unrequested(key) =>
                   /\ Returned /\ Acted # 0
                   /\ ProcsOf(NewEvents, key[1]) = {}
                   /\ ResolvedOutcomes(events', key) = {}
                   /\ \A k \in 1..Len(NewEvents) :
                          NewEvents[k].type = MASTERY_PROC_REJECTED
                              => NewEvents[k].data.holder # key[1]
                   /\ actors'[IndexOfName(actors, key[1])].turn_meter
                          = MeterWithoutBonus(IndexOfName(actors, key[1]))]_vars

\* C21 witness: qualifying expirations were counted at a step of a holder
\* whose only declared request is for another step, and the run went on.
UnrequestedWitness ==
    \E key \in DOMAIN qcounts :
        /\ qcounts[key] > 0
        /\ cfg.requester # "none"
        /\ key \notin DOMAIN cfg.requests
        /\ \E other \in DOMAIN cfg.requests : other[1] = key[1]
        /\ raised = "none"
        /\ events # <<>> /\ events[Len(events)].type = TURN_END

-----------------------------------------------------------------------------
(* C22: expirations, then reconciliation, then TURN_END *)

\* the positions in the step's events of the EFFECT_EXPIRED of the TURN_END
\* boundary: every EFFECT_EXPIRED but those of the TURN_START phase
TurnEndExpirations ==
    {k \in 1..Len(NewEvents) :
        /\ NewEvents[k].type = EFFECT_EXPIRED
        /\ ~("phase" \in DOMAIN NewEvents[k].data /\ NewEvents[k].data.phase = TURN_START)}

\* the positions in the step's events of the mastery proc outcomes
TurnOutcomes ==
    {k \in 1..Len(NewEvents) : NewEvents[k].type \in {MASTERY_PROC, MASTERY_PROC_REJECTED}}

\* those the TURN_END reconciliation recorded (they carry resolution_step)
ReconciledOutcomes ==
    {k \in TurnOutcomes : "resolution_step" \in DOMAIN NewEvents[k].data}

\* the outcomes of `outcomes` follow every TURN_END expiration of the turn and
\* precede its TURN_END event, the last event of the turn
AfterExpirationsBeforeTurnEnd(outcomes) ==
    /\ \A j \in outcomes : \A k \in TurnEndExpirations : k < j
    /\ \A j \in outcomes : j < Len(NewEvents)
    /\ \A k \in TurnEndExpirations : k < Len(NewEvents)
    /\ NewEvents[Len(NewEvents)].type = TURN_END

\* C22 as stated: in every turn, every EFFECT_EXPIRED of the TURN_END boundary
\* precedes every MASTERY_PROC and MASTERY_PROC_REJECTED of the turn, and
\* those precede the TURN_END event.
ExpirationsBeforeOutcomes ==
    [][Returned /\ Acted # 0 /\ cfg.has_sink
           => AfterExpirationsBeforeTurnEnd(TurnOutcomes)]_vars

\* C22 amended: the same for the outcomes the TURN_END reconciliation records;
\* a MASTERY_PROC emitted at TURN_START for a requester with emit_on_turn_start
\* precedes every EFFECT_EXPIRED of its turn.
ExpirationsBeforeReconciledOutcomes ==
    [][Returned /\ Acted # 0 /\ cfg.has_sink
           => /\ AfterExpirationsBeforeTurnEnd(ReconciledOutcomes)
              /\ \A j \in TurnOutcomes \ ReconciledOutcomes :
                     /\ NewEvents[j].type = MASTERY_PROC
                     /\ cfg.requester = "built"
                     /\ \A k \in 1..Len(NewEvents) :
                            NewEvents[k].type = EFFECT_EXPIRED => j < k]_vars

\* C22 witness: a turn ended with a BUFF expiration of its TURN_END, then the
\* reconciled MASTERY_PROC, then TURN_END, after a MASTERY_PROC at TURN_START.
OrderWitness ==
    \E k \in NormalSelections \cup ExtraSelections :
        /\ LastSelection(k)
        /\ \E a, b, c \in (k + 1)..Len(events) :
               /\ a < b /\ b < c
               /\ events[a].type = MASTERY_PROC
               /\ "resolution_step" \notin DOMAIN events[a].data
               /\ events[b].type = EFFECT_EXPIRED
               /\ "reason" \in DOMAIN events[b].data
               /\ events[b].data.reason = "duration_reached_zero"
               /\ events[c].type = MASTERY_PROC
               /\ "resolution_step" \in DOMAIN events[c].data

-----------------------------------------------------------------------------
(* C23: an injected expiration that cannot be honoured *)

\* some actor of as carries the instance iid
Carried(as, iid) ==
    \E i \in 1..Len(as) : \E k \in 1..Len(as[i].active_effects) :
        as[i].active_effects[k].instance_id = iid

\* the injected item cannot be honoured by the call: it is structurally
\* invalid, or it names an instance no actor carries before the call and the
\* call places on none
Unhonourable(item) ==
    \/ ~validate_expire_effect_request(item)
    \/ /\ ~Carried(actors, item.instance_id)
       /\ \A k \in 1..Len(NewEvents) :
              NewEvents[k].type = EFFECT_APPLIED /\ "instance_id" \in DOMAIN NewEvents[k].data
                  => NewEvents[k].data.instance_id # item.instance_id

\* the items the expiration resolver hands to a call that opens the turn tc
InjectedInTurn(tc) ==
    {Injected(cfg, ph, tc)[k] :
        <<ph, k>> \in {x \in {TURN_START, TURN_END} \X (1..1) :
                          x[2] <= Len(Injected(cfg, x[1], tc))}}

\* C23: a call that is handed an injected expiration request that is
\* structurally invalid, or names an instance no actor carries, raises
\* ValueError; no EFFECT_EXPIRED is recorded for the request and every actor
\* keeps the instance the request names.
InvalidInjectionRaises ==
    [][IsCall /\ cfg.has_sink /\ turn_counter' = turn_counter + 1 =>
           \A item \in InjectedInTurn(turn_counter') :
               Unhonourable(item) =>
                   /\ ~Returned
                   /\ raised' = "ValueError"
                   /\ \A k \in 1..Len(NewEvents) :
                          NewEvents[k].type = EFFECT_EXPIRED
                              => /\ "instance_id" \notin DOMAIN NewEvents[k].data
                                    \/ NewEvents[k].data.instance_id # item.instance_id
                                 /\ "reason" \notin DOMAIN NewEvents[k].data
                                    \/ NewEvents[k].data.reason # "injected"
                   /\ Carried(actors, item.instance_id) => Carried(actors', item.instance_id)
                   /\ \A k \in 1..Len(NewEvents) :
                          /\ NewEvents[k].type = EFFECT_APPLIED
                          /\ "instance_id" \in DOMAIN NewEvents[k].data
                          /\ NewEvents[k].data.instance_id = item.instance_id
                          => Carried(actors', item.instance_id)]_vars

\* C23 witness: a request with a wrong type field named a BUFF that an actor
\* carries; the call raised ValueError inside the turn and the actor still
\* carries the BUFF.
InvalidInjectionWitness ==
    /\ raised = "ValueError"
    /\ cfg.requester = "none"
    /\ \E item \in InjectedInTurn(turn_counter) :
           /\ item.type # "expire_effect"
           /\ Carried(actors, item.instance_id)
    /\ events # <<>>
    /\ events[Len(events)].type # TURN_END

-----------------------------------------------------------------------------
(* C24: the boss's own turn and its shield *)

\* the call returned the boss
BossActs == Returned /\ Acted # 0 /\ actors[Acted].is_boss

\* the boss shield when the boss's turn starts: the TURN_START snapshot of the
\* step, or the shield the call found when nothing is recorded
ShieldAtTurnStart ==
    IF cfg.has_sink
    THEN NewEvents[CHOOSE k \in 1..Len(NewEvents) : NewEvents[k].type = TURN_START]
             .data.boss_shield_value
    ELSE actors[Acted].shield

\* the hits that count on a boss turn: none of a hit provider's, all of
\* hit_counts_by_actor, and what the contribution resolver adds to them
BossTurnHits ==
    IF cfg.provider = "none" THEN EmptyMap
    ELSE MergedHits(actors', Acted,
                    IF cfg.provider = "built" THEN EmptyMap ELSE cfg.hits_by_actor)

\* C24 as stated: on the boss's own turn the shield at TURN_END is the shield
\* at TURN_START, whatever the hit sources return.
BossTurnKeepsShield ==
    [][BossActs => actors'[Acted].shield = ShieldAtTurnStart]_vars

\* C24 amended: on the boss's own turn the counts of a hit provider are
\* discarded; the shield at TURN_END is the shield at TURN_START less the hits
\* of hit_counts_by_actor and of the contribution resolver (counterattacks,
\* Faultless Defense reflect), floored at 0.
BossTurnDropsProviderHits ==
    [][BossActs =>
           /\ actors'[Acted].shield =
                  ShieldAfterHits(
                      ShieldAfterHits(ShieldAtTurnStart,
                                      SumOver(BossTurnHits, (DOMAIN BossTurnHits) \ {"REFLECT"})),
                      Get(BossTurnHits, "REFLECT"))
           /\ cfg.provider = "built" /\ DOMAIN BossTurnHits = {}
                  => actors'[Acted].shield = ShieldAtTurnStart]_vars

\* C24 witness: the boss took a turn in which the hit provider consumed its A1
\* (one hit by the skill table) and its shield is at TURN_END what it was at
\* TURN_START.
BossTurnWitness ==
    \E k \in NormalSelections \cup ExtraSelections :
        /\ LastSelection(k)
        /\ cfg.provider = "built"
        /\ actors[events[k].data.actor_index].is_boss
        /\ \E j \in (k + 1)..Len(events) :
               events[j].type = SKILL_CONSUMED /\ events[j].data.skill_id = "A1"
        /\ \E j \in (k + 1)..Len(events) :
               /\ events[j].type = TURN_START
               /\ events[j].data.boss_shield_value > 0
               /\ events[j].data.boss_shield_value
                      = events[Len(events)].data.boss_shield_value

-----------------------------------------------------------------------------
(* C25: DECREASE_SPD *)

\* the DECREASE_SPD effects among effs that still have turns remaining, in order
LiveSlows(effs) ==
    FilterSeq(effs, {k \in 1..Len(effs) :
                        effs[k].kind = DECREASE_SPD /\ effs[k].turns_remaining > 0})

\* what one fill adds to the turn meter of actor a, which carries at most one
\* live DECREASE_SPD: its speed, less the effect's percentage while it is there
SlowedGain(a) ==
    IF LiveSlows(a.effects) = <<>>
    THEN (a.speed * a.speed_multiplier) \div 100
    ELSE (a.speed * a.speed_multiplier * (100 - LiveSlows(a.effects)[1].magnitude)) \div 10000

\* the positions in the step's events of the EFFECT_EXPIRED of a DECREASE_SPD
SlowExpirations ==
    {k \in 1..Len(NewEvents) :
        /\ NewEvents[k].type = EFFECT_EXPIRED
        /\ "effect" \in DOMAIN NewEvents[k].data
        /\ NewEvents[k].data.effect = DECREASE_SPD}

\* the fill of the step slowed every actor that carries a live DECREASE_SPD
FillSlowed ==
    /\ \A i \in 1..Len(actors) :
           i # Acted =>
               actors'[i].turn_meter
                   = actors[i].turn_meter + SlowedGain(actors[i])
                         + ProcBonus(NewEvents, actors[i].name)
    /\ Acted # 0 /\ cfg.has_sink =>
           \E k \in 1..Len(NewEvents) :
               /\ NewEvents[k].type = WINNER_SELECTED
               /\ NewEvents[k].data.pre_reset_tm
                      = actors[Acted].turn_meter + SlowedGain(actors[Acted])

-----------------------------------------------------------------------------
(* C26: the qualifying expiration counters *)

\* the skill-sequence cursor of actor i when the k-th event of the step is
\* recorded: its cursor before the step plus the skills it consumed by then
CursorAt(i, k) ==
    actors[i].skill_sequence_cursor
        + Cardinality({j \in 1..(k - 1) :
                          /\ NewEvents[j].type = SKILL_CONSUMED
                          /\ NewEvents[j].actor = actors[i].name})

\* the positions in the step's events of the expirations of BUFF instances
\* placed by actor i while i stands on `step`
BuffExpirationsAt(i, step) ==
    {k \in 1..Len(NewEvents) :
        /\ NewEvents[k].type = EFFECT_EXPIRED
        /\ "instance_id" \in DOMAIN NewEvents[k].data
        /\ NewEvents[k].data.effect_kind = "BUFF"
        /\ NewEvents[k].data.placed_by = actors[i].name
        /\ CursorAt(i, k) = step}

\* the steps an actor can stand on
Steps == 0..(MaxCalls + 1)

\* the counters of the steps in `steps` rise by the BUFF expirations of the
\* call, each under its placer's step at that moment; no other counter moves
CountersFollowExpirations(steps) ==
    /\ \A key \in DOMAIN qcounts : key \in DOMAIN qcounts' /\ qcounts'[key] >= qcounts[key]
    /\ \A i \in 1..Len(actors) : \A step \in steps :
           Get(qcounts', <<actors[i].name, step>>)
               = Get(qcounts, <<actors[i].name, step>>)
                     + Cardinality(BuffExpirationsAt(i, step))
    /\ \A key \in DOMAIN qcounts' :
           /\ IndexOfName(actors, key[1]) # 0
           /\ key[2] \in Steps
           /\ key[2] \notin steps => Get(qcounts, key) = qcounts'[key]

\* C26 as stated: every expiration of a BUFF whose placed_by names an actor
\* adds exactly 1 to the counter of (placer, the placer's step at that
\* moment); nothing else changes a counter, and no counter decreases.
QualifyingCounted ==
    [][IsCall /\ cfg.has_sink => CountersFollowExpirations(Steps)]_vars

\* C26 amended: the same for a placer that has consumed at least one skill
\* (step >= 1); the expiration of a BUFF whose placer has consumed none is
\* counted nowhere.
QualifyingCountedFromStepOne ==
    [][IsCall /\ cfg.has_sink => CountersFollowExpirations(Steps \ {0})]_vars

\* the recorded expirations of instances placed by `placer`
ExpirationsPlacedBy(placer) ==
    {k \in 1..Len(events) :
        /\ events[k].type = EFFECT_EXPIRED
        /\ "instance_id" \in DOMAIN events[k].data
        /\ events[k].data.placed_by = placer}

\* the shield fight with the boss on step 1: the BUFF the boss placed has
\* expired and is counted under (Boss, 1); the BUFF of the unknown placer and
\* the BUFF of Martyr, who has consumed no skill, have expired uncounted
QualifyingWitness ==
    /\ cfg \in ShieldConfigs
    /\ cfg.has_sink
    /\ ExpirationsPlacedBy("Boss") # {}
    /\ ExpirationsPlacedBy("Duchess") # {}
    /\ ExpirationsPlacedBy("Martyr") # {}
    /\ DOMAIN qcounts = {<<"Boss", 1>>}
    /\ qcounts[<<"Boss", 1>>] = 1

\* the injected expiration of the DEBUFF Mikage placed is recorded while
\* Mikage stands on a step, and no counter has moved
DebuffExpiredUncounted ==
    /\ cfg \in MikageConfigs
    /\ \E k \in ExpirationsPlacedBy("Mikage") :
           /\ events[k].data.effect_kind = "DEBUFF"
           /\ events[k].data.reason = "injected"
    /\ \E k \in 1..Len(events) :
           events[k].type = SKILL_CONSUMED /\ events[k].actor = "Mikage"
    /\ DOMAIN qcounts = {}

\* a BUFF Mikage placed has expired and is counted under Mikage's step
MikageBuffCounted ==
    /\ cfg \in MikageConfigs
    /\ \E key \in DOMAIN qcounts : key[1] = "Mikage" /\ qcounts[key] >= 2

-----------------------------------------------------------------------------
(* C27: consuming skill tokens under error_if_exhausted *)

\* the positions in the step's events of the skills actor i consumed
ConsumedBy(i) ==
    {k \in 1..Len(NewEvents) :
        NewEvents[k].type = SKILL_CONSUMED /\ NewEvents[k].actor = actors[i].name}

\* the actor whose turn the call opened (0 when it opened none)
TurnActor ==
    LET starts == {k \in 1..Len(NewEvents) : NewEvents[k].type = TURN_START}
    IN IF starts = {} THEN 0
       ELSE IndexOfName(actors, NewEvents[CHOOSE k \in starts :
                                              \A j \in starts : j <= k].actor)

\* actor i has a skill sequence and has consumed all of it
Exhausted(i) ==
    /\ actors[i].skill_sequence # <<>>
    /\ actors[i].skill_sequence_cursor >= Len(actors[i].skill_sequence)

\* C27: with the provider built under error_if_exhausted, a turn of an actor
\* with a skill sequence consumes exactly the next token (cursor + 1 and one
\* SKILL_CONSUMED naming it), no other cursor moves, no cursor exceeds the
\* length of its sequence, and a turn opened with the cursor at the end raises
\* SkillSequenceExhaustedError and leaves every cursor as it was.
ConsumeNextOrRaise ==
    [][IsCall /\ cfg.provider = "built" /\ cfg.sequence_policy = "error_if_exhausted" =>
          /\ \A i \in 1..Len(actors) :
                 /\ actors'[i].skill_sequence = actors[i].skill_sequence
                 /\ actors'[i].skill_sequence_cursor
                        = actors[i].skill_sequence_cursor + Cardinality(ConsumedBy(i))
                 /\ actors'[i].skill_sequence_cursor <= Len(actors[i].skill_sequence)
                 /\ \A k \in ConsumedBy(i) :
                        /\ ConsumedBy(i) = {k}
                        /\ i = TurnActor
                        /\ NewEvents[k].data.skill_id
                               = actors[i].skill_sequence[actors[i].skill_sequence_cursor + 1]
          /\ Returned /\ Acted # 0 /\ actors[Acted].skill_sequence # <<>> =>
                 /\ TurnActor = Acted
                 /\ Cardinality(ConsumedBy(Acted)) = 1
          /\ TurnActor # 0 /\ Exhausted(TurnActor) =>
                 /\ raised' # "none"
                 /\ ConsumedBy(TurnActor) = {}
          /\ raised' = "SkillSequenceExhaustedError" =>
                 /\ TurnActor # 0
                 /\ Exhausted(TurnActor)
                 /\ \A k \in 1..Len(NewEvents) : NewEvents[k].type # TURN_END
                 /\ \A i \in 1..Len(actors) :
                        actors'[i].skill_sequence_cursor = actors[i].skill_sequence_cursor]_vars

\* Mikage has consumed both tokens of <<"B_A3", "A1">>, and the next turn
\* Mikage was given raised the error with the cursor still at 2
ExhaustedWitness ==
    /\ cfg.provider = "built"
    /\ actors[1].skill_sequence = <<"B_A3", "A1">>
    /\ actors[1].skill_sequence_cursor = 2
    /\ raised = "SkillSequenceExhaustedError"
    /\ events[Len(events)].type = TURN_START
    /\ events[Len(events)].actor = "Mikage"
    /\ Cardinality({k \in 1..Len(events) :
                       events[k].type = SKILL_CONSUMED /\ events[k].actor = "Mikage"}) = 2

-----------------------------------------------------------------------------
(* C28: Metamorph gives Mikage the very next turn *)

\* the k-th event of log es records Mikage consuming a Metamorph token
IsMetamorph(es, k) ==
    /\ es[k].type = SKILL_CONSUMED
    /\ IsMikageName(es[k].actor)
    /\ es[k].data.skill_id \in {"A_A4", "B_A4", "METAMORPH"}

\* the first TURN_START of log es after position k (0 when there is none)
NextTurnStart(es, k) ==
    LET later == {j \in (k + 1)..Len(es) : es[j].type = TURN_START}
    IN IF later = {} THEN 0 ELSE CHOOSE j \in later : \A i \in later : j <= i

\* in log es, the turn after each Metamorph is the same actor's, on the same
\* tick, with no tick opened and no fill recorded in between
MetamorphThenSameActor(es) ==
    \A k \in 1..Len(es) :
        IsMetamorph(es, k) /\ NextTurnStart(es, k) # 0 =>
            LET j == NextTurnStart(es, k)
            IN /\ es[j].actor = es[k].actor
               /\ es[j].tick = es[k].tick
               /\ \A i \in (k + 1)..j : es[i].type \notin {TICK_START, FILL_COMPLETE}

\* C28: when Mikage consumes a Metamorph token (A_A4, B_A4 or METAMORPH) in a
\* turn, Mikage is owed an extra turn when the call is over, and the next call
\* gives it: the next turn in the log is Mikage's, on the same tick, without a
\* fill (no FILL_COMPLETE, no other actor's meter moves but by a mastery
\* proc), before any other actor acts.
MetamorphExtraTurn ==
    [][IsCall /\ cfg.provider = "built" =>
          /\ MetamorphThenSameActor(events')
          /\ \A k \in 1..Len(NewEvents) :
                 IsMetamorph(NewEvents, k) =>
                     LET i == IndexOfName(actors, NewEvents[k].actor)
                     IN /\ actors'[i].extra_turns = actors[i].extra_turns + 1
                           \/ /\ ExtraCandidate(actors) = i
                              /\ actors'[i].extra_turns = actors[i].extra_turns
                        /\ ExtraCandidate(actors') = i
          /\ ExtraCandidate(actors) # 0 =>
                 /\ tick' = tick
                 /\ TurnActor = ExtraCandidate(actors)
                 /\ \A k \in 1..Len(NewEvents) :
                        NewEvents[k].type \notin {TICK_START, FILL_COMPLETE}
                 /\ \A i \in 1..Len(actors) :
                        \/ i = TurnActor
                        \/ actors'[i].turn_meter = actors[i].turn_meter
                        \/ \E k \in 1..Len(NewEvents) :
                               /\ NewEvents[k].type = MASTERY_PROC
                               /\ NewEvents[k].data.holder = actors[i].name]_vars

\* Mikage opened with A_A4 and B_A4: three turns of Mikage on tick 1, the
\* second and third with no fill, then the others
MetamorphWitness ==
    /\ cfg.provider = "built"
    /\ actors[1].skill_sequence = <<"A_A4", "B_A4", "A1">>
    /\ Len(returned) >= 4
    /\ SubSeq(returned, 1, 4) = <<1, 1, 1, 2>>
    /\ Cardinality({k \in 1..Len(events) :
                       /\ events[k].type = TURN_START
                       /\ events[k].actor = "Mikage"
                       /\ events[k].tick = 1}) = 3
    /\ Cardinality({k \in 1..Len(events) :
                       events[k].type = FILL_COMPLETE /\ events[k].tick = 1}) = 1

-----------------------------------------------------------------------------
(* C29: a tick must be opened before facts are recorded *)

\* the step is an emit by the caller on the sink itself
IsSinkEmit ==
    /\ cfg.has_sink
    /\ UNCHANGED <<actors, returned, grants, breaks, seed_tc, turn_counter>>
    /\ raised' # raised \/ events' # events

\* every event of log es carries tick >= 1 and seq >= 1
TickAndSeqPositive(es) ==
    \A k \in 1..Len(es) : es[k].tick >= 1 /\ es[k].seq >= 1

\* C29: an emit on a sink whose start_tick was never called raises
\* (RuntimeError) and appends nothing; nothing is ever recorded while no tick
\* is open, so every event of every log has tick >= 1 and seq >= 1.
EmitNeedsOpenTick ==
    [][/\ IsSinkEmit /\ tick <= 0 =>
              /\ raised' = "RuntimeError"
              /\ events' = events
              /\ tick' = tick
              /\ seq' = seq
       /\ tick' <= 0 => events' = <<>>
       /\ raised' = "RuntimeError" => raised = "RuntimeError" \/ (IsSinkEmit /\ tick <= 0)
       /\ TickAndSeqPositive(events')]_vars

\* the caller's emit on the fresh sink has raised and the log is empty
EmitBeforeTickWitness ==
    /\ cfg.has_sink
    /\ raised = "RuntimeError"
    /\ tick = 0
    /\ seq = 0
    /\ events = <<>>

-----------------------------------------------------------------------------
(* C30: each (holder, step) is resolved at most once *)

\* the positions in log es of the recorded outcomes, granted or rejected
Outcomes(es) ==
    {k \in 1..Len(es) : es[k].type \in {MASTERY_PROC, MASTERY_PROC_REJECTED}}

\* the (holder, step) the outcome at position k of log es is for: the step the
\* guarded resolution names, or, for a proc emitted at TURN_START, the step of
\* the skill the holder is about to consume
OutcomeKey(es, k) ==
    IF "resolution_step" \in DOMAIN es[k].data
    THEN <<es[k].data.holder, es[k].data.resolution_step>>
    ELSE <<es[k].data.holder,
           1 + Cardinality({j \in 1..(k - 1) :
                               /\ es[j].type = SKILL_CONSUMED
                               /\ es[j].actor = es[k].data.holder})>>

\* the bonus the granted outcomes for key in log es add to the holder's meter
GrantedFor(es, key) ==
    {k \in Outcomes(es) : es[k].type = MASTERY_PROC /\ OutcomeKey(es, k) = key}

\* C30: over a whole run at most one MASTERY_PROC or MASTERY_PROC_REJECTED is
\* recorded for each (holder, step), so its turn-meter bonus is applied at most
\* once, also when the proc is emitted at TURN_START and qualifying
\* expirations for the same (holder, step) are counted at a later TURN_END.
ResolvedAtMostOnce ==
    \A k1, k2 \in Outcomes(events) :
        OutcomeKey(events, k1) = OutcomeKey(events, k2) => k1 = k2

\* the same for the runs whose requester does not ask for emission at
\* TURN_START: there each (holder, step) has at most one outcome
ResolvedAtMostOncePlain ==
    cfg.requester = "plain" => ResolvedAtMostOnce

\* with a plain requester, a key that has its outcome is kept through later
\* turns of the holder without a second one
ResolvedOnceWitness ==
    /\ cfg.requester = "plain"
    /\ \E k \in Outcomes(events) :
           /\ OutcomeKey(events, k) \in resolved
           /\ Cardinality({j \in (k + 1)..Len(events) :
                              /\ events[j].type = TURN_END
                              /\ events[j].actor = events[k].data.holder}) >= 2

-----------------------------------------------------------------------------
(* C31: the turn counter and its stamp on the actors *)

\* the TURN_START events of log es
TurnStarts(es) == {k \in 1..Len(es) : es[k].type = TURN_START}

\* the counter of the run: on the sink, or on actors[0] in a run without one
RunTurnCounter == IF cfg.has_sink THEN turn_counter ELSE seed_tc

\* every actor carries the run's counter as _current_turn_counter
StampedEverywhere ==
    \A i \in 1..Len(actors) : actors[i].current_turn_counter = RunTurnCounter

\* C31: the sink's turn counter equals the number of TURN_START events
\* recorded, and every actor's stamp equals the run's counter.
TurnCounterStamped ==
    /\ cfg.has_sink => turn_counter = Cardinality(TurnStarts(events))
    /\ StampedEverywhere

\* what holds of every run: the counter equals the number of TURN_START
\* events, it rises by 1 in a call that opens a turn and stays in any other
\* step, and after every call that returned the stamps equal the counter
TurnCounterStampedOnReturn ==
    [][/\ cfg.has_sink => turn_counter' = Cardinality(TurnStarts(events'))
       /\ cfg.has_sink =>
              turn_counter' = turn_counter + Cardinality(TurnStarts(NewEvents))
       /\ cfg.caller = "step_tick" => Cardinality(TurnStarts(NewEvents)) <= 1
       /\ Returned /\ Acted = 0 =>
              /\ turn_counter' = turn_counter
              /\ seed_tc' = seed_tc
       /\ Returned /\ Acted # 0 /\ ~cfg.has_sink => seed_tc' = seed_tc + 1
       /\ Returned => StampedEverywhere']_vars

\* a no-winner tick and two extra turns have gone by; the counter counts the
\* turns only
TurnCounterWitness ==
    /\ cfg.has_sink
    /\ turn_counter >= 3
    /\ \E k \in 1..Len(returned) : returned[k] = 0
    /\ \E k \in 1..(Len(returned) - 1) : returned[k] # 0 /\ returned[k] = returned[k + 1]
    /\ raised = "none"
    /\ StampedEverywhere

-----------------------------------------------------------------------------
(* C32: an extra turn as the first step of a run *)

\* the positions of the TICK_START events of log es
TickStarts(es) == {k \in 1..Len(es) : es[k].type = TICK_START}

\* C32: a call that takes an extra turn on a sink with no tick opened opens
\* tick 1 and records TICK_START (tick 1, seq 1) before anything else, so it
\* does not fail on the sink and records nothing with tick 0; every other call
\* that takes an extra turn opens no tick and records on the current one.
ExtraTurnOpensFirstTick ==
    [][(returned' # returned \/ raised' # raised) /\ ~IsSinkEmit
           /\ cfg.caller = "step_tick"
           /\ cfg.has_sink /\ ExtraCandidate(actors) # 0 =>
          /\ raised' # "RuntimeError"
          /\ NewEvents # <<>>
          /\ \A k \in 1..Len(NewEvents) : NewEvents[k].tick = tick' /\ tick' >= 1
          /\ tick <= 0 =>
                 /\ events = <<>>
                 /\ tick' = 1
                 /\ NewEvents[1].type = TICK_START
                 /\ NewEvents[1].seq = 1
                 /\ TickStarts(NewEvents) = {1}
          /\ tick > 0 =>
                 /\ tick' = tick
                 /\ TickStarts(NewEvents) = {}
                 /\ NewEvents[1].seq = seq + 1]_vars

\* the run began with two extra turns: both are on tick 1, which the first
\* opened, and no fill has been recorded
FirstStepExtraWitness ==
    /\ cfg.has_sink
    /\ ExtraCandidate(cfg.team) # 0
    /\ Len(returned) = 2
    /\ returned[1] = ExtraCandidate(cfg.team)
    /\ tick = 1
    /\ events[1].type = TICK_START
    /\ Cardinality(TickStarts(events)) = 1
    /\ Cardinality(TurnStarts(events)) = 2
    /\ \A k \in 1..Len(events) : events[k].type # FILL_COMPLETE

-----------------------------------------------------------------------------
(* C33: every step that is not an extra turn opens the next tick *)

\* C33: a call that takes no extra turn, whether or not an actor acts in it,
\* advances the sink's tick by exactly 1 and records TICK_START first, with
\* the new tick and seq 1, and no other TICK_START; no step ever decreases
\* the tick.
NormalStepOpensNextTick ==
    [][/\ tick' >= tick
       /\ (returned' # returned \/ raised' # raised) /\ ~IsSinkEmit
              /\ cfg.caller = "step_tick"
              /\ cfg.has_sink /\ ExtraCandidate(actors) = 0 =>
              /\ tick' = tick + 1
              /\ NewEvents # <<>>
              /\ NewEvents[1].type = TICK_START
              /\ NewEvents[1].tick = tick'
              /\ NewEvents[1].seq = 1
              /\ TickStarts(NewEvents) = {1}
              /\ \A k \in 1..Len(NewEvents) : NewEvents[k].tick = tick']_vars

\* a run with a no-winner tick and an extra turn: as many TICK_START events
\* as ticks, one fewer than calls
NextTickWitness ==
    /\ cfg.has_sink
    /\ tick >= 3
    /\ Len(returned) = tick + 1
    /\ Cardinality(TickStarts(events)) = tick
    /\ \E k \in 1..Len(returned) : returned[k] = 0
    /\ events[Len(events)].type = TURN_END

-----------------------------------------------------------------------------
(* C34: the boss shield after a non-boss turn, and the Phantom Touch bonus *)

\* the base hits of the turn the call ran: the acting actor's hits for the
\* skill it consumed (built provider), or hit_counts_by_actor as given
BaseHitsOfTurn ==
    IF cfg.provider = "built"
    THEN LET used == {k \in ConsumedBy(Acted) :
                         Get(cfg.skill_hits, NewEvents[k].data.skill_id) > 0}
         IN IF used = {} THEN EmptyMap
            ELSE Put(EmptyMap, actors[Acted].name,
                     Get(cfg.skill_hits, NewEvents[CHOOSE k \in used : TRUE].data.skill_id))
    ELSE cfg.hits_by_actor

\* the ally Mikage's B_A3 brings in to attack in this turn (0 when none)
JoinerOfTurn ==
    LET cands == {j \in 1..Len(actors) : ~actors[j].is_boss /\ j # Acted}
    IN IF /\ IsMikageName(actors[Acted].name)
          /\ \E k \in ConsumedBy(Acted) : NewEvents[k].data.skill_id = "B_A3"
          /\ cands # {}
       THEN MaxByJoinKey(actors, cands)
       ELSE 0

\* the hits of the joined attack
JoinHitsOfTurn ==
    IF JoinerOfTurn # 0 /\ actors[JoinerOfTurn].a1_hits > 0
    THEN actors[JoinerOfTurn].a1_hits ELSE 0

\* +1 for each contributor with one or more base hits and the blessing
PhantomOnBaseHits ==
    Cardinality({i \in 1..Len(actors) :
                    /\ Get(BaseHitsOfTurn, actors[i].name) >= 1
                    /\ "phantom_touch" \in actors[i].blessings})

\* +1 for the joiner of a joined attack when it has the blessing
PhantomOnJoin ==
    IF JoinHitsOfTurn > 0 /\ "phantom_touch" \in actors[JoinerOfTurn].blessings
    THEN 1 ELSE 0

\* the call ran the turn of a non-boss actor with hits given, a boss present
NonBossTurnWithHits ==
    /\ Returned /\ Acted # 0
    /\ ~actors[Acted].is_boss
    /\ cfg.provider # "none"
    /\ BossIndex(actors) # 0

\* the boss shield after the call is the shield before less `hits`, floored
ShieldLess(hits) ==
    actors'[BossIndex(actors)].shield
        = Max2(0, actors[BossIndex(actors)].shield - hits)

PhantomJoinWitness ==
    /\ cfg \in JoinConfigs
    /\ "phantom_touch" \in cfg.team[2].blessings
    /\ returned = <<1>>
    /\ actors[3].shield = 2

-----------------------------------------------------------------------------
(* C35: run_ticks terminates *)

\* the boss TURN_END events of log es
BossTurnEnds(es) == {k \in 1..Len(es) : es[k].actor = "Boss" /\ es[k].type = TURN_END}

\* the step is a run_ticks call that did something
IsRunTicks ==
    /\ cfg.caller = "run_ticks"
    /\ ~IsSinkEmit
    /\ returned' # returned \/ raised' # raised \/ events' # events

\* C35: a run_ticks call ends after at most `ticks` steps. With
\* stop_after_boss_turns = N (N >= 1) it returns right after the step that
\* records the boss's N-th TURN_END, the log then holding exactly N boss
\* TURN_END events, the last of them its last event, or after `ticks` steps
\* when the boss ends fewer than N turns; without it, it performs exactly
\* `ticks` steps. Extra-turn steps count as steps. A step that raises ends it.
RunTicksTerminates ==
    [][IsRunTicks =>
          LET steps == Len(returned')
              ends == Cardinality(BossTurnEnds(events'))
              N == cfg.stop_after_boss_turns
          IN /\ returned = <<>> /\ events = <<>>
             /\ steps <= cfg.ticks
             /\ raised' # "none" => steps < cfg.ticks
             /\ raised' = "none" /\ ~cfg.has_stop => steps = cfg.ticks
             /\ raised' = "none" /\ cfg.has_stop /\ N >= 1 =>
                    /\ ends <= N
                    /\ ends = N =>
                           /\ events'[Len(events')].type = TURN_END
                           /\ events'[Len(events')].actor = "Boss"
                           /\ returned'[steps] = BossIndex(actors)
                    /\ ends < N => steps = cfg.ticks
             /\ Cardinality(TurnStarts(events')) + Cardinality({k \in 1..steps :
                                                                 returned'[k] = 0})
                    = steps + (IF raised' = "none" THEN 0 ELSE 1)]_vars

\* run_ticks with ticks = 7 and stop_after_boss_turns = 1 on the team that
\* opens with two Metamorphs: it returned after 5 steps, the two extra turns
\* counted, at the boss's first TURN_END
RunTicksWitness ==
    /\ cfg.caller = "run_ticks"
    /\ cfg.ticks = 7
    /\ cfg.has_stop
    /\ cfg.stop_after_boss_turns = 1
    /\ raised = "none"
    /\ returned = <<1, 1, 1, 2, 3>>
    /\ tick = 3
    /\ Cardinality(BossTurnEnds(events)) = 1
    /\ events[Len(events)].type = TURN_END
    /\ events[Len(events)].actor = "Boss"

\* run_ticks without a stop condition performed exactly its 7 steps
RunTicksAllWitness ==
    /\ cfg.caller = "run_ticks"
    /\ cfg.ticks = 7
    /\ ~cfg.has_stop
    /\ raised = "none"
    /\ Len(returned) = 7

\* run_ticks was ended by an exhausted skill sequence
RunTicksRaisedWitness ==
    /\ cfg.caller = "run_ticks"
    /\ raised = "SkillSequenceExhaustedError"
    /\ Len(returned) < cfg.ticks

\* with stop_after_boss_turns = 0 run_ticks goes on to the boss's first
\* TURN_END: the test is made only when a boss turn has ended
RunTicksStopZero ==
    /\ cfg.caller = "run_ticks"
    /\ cfg.has_stop
    /\ cfg.stop_after_boss_turns = 0
    /\ raised = "none"
    /\ Len(returned) >= 3
    /\ Cardinality(BossTurnEnds(events)) = 1

-----------------------------------------------------------------------------
(* C36: a proc request with a non-positive count *)

\* the requester answers for (name, step) with an item whose count is not positive
BadCountAt(name, step) ==
    \E k \in 1..Len(Requested(cfg, name, step)) :
        Requested(cfg, name, step)[k].count <= 0

\* the call opens a turn whose TURN_START seam asks the requester for a key
\* that holds such an item
BadCountSeenAtTurnStart ==
    /\ cfg.requester = "built"
    /\ TurnActor # 0
    /\ <<actors[TurnActor].name, actors[TurnActor].skill_sequence_cursor + 1>>
           \notin emitted
    /\ BadCountAt(actors[TurnActor].name,
                  actors[TurnActor].skill_sequence_cursor + 1)

\* the call opens a turn whose TURN_END reconciliation asks the requester for
\* Mikage's current step, and that key holds such an item
BadCountSeenAtTurnEnd ==
    LET h == IndexOfName(actors, "Mikage")
    IN /\ cfg.requester # "none"
       /\ TurnActor # 0
       /\ h # 0
       /\ actors'[h].skill_sequence_cursor >= 1
       /\ <<"Mikage", actors'[h].skill_sequence_cursor>> \notin resolved
       /\ BadCountAt("Mikage", actors'[h].skill_sequence_cursor)

\* every MASTERY_PROC of log es carries a positive count
ProcCountsPositive(es) ==
    \A k \in 1..Len(es) : es[k].type = MASTERY_PROC => es[k].data.count >= 1

\* C36: a step_tick call that sees a proc request item with a non-positive
\* count, at the TURN_START seam or at the TURN_END reconciliation and
\* whichever holder and mastery the item names, raises; no MASTERY_PROC with
\* such a count is ever recorded and the turn meters take no proc bonus from it.
NonPositiveCountRaises ==
    [][(returned' # returned \/ raised' # raised) /\ ~IsSinkEmit
           /\ cfg.caller = "step_tick" /\ cfg.has_sink
           /\ (BadCountSeenAtTurnStart \/ BadCountSeenAtTurnEnd) =>
          /\ raised' # "none"
          /\ ProcCountsPositive(events')
          /\ \A i \in 1..Len(actors) : ProcBonus(NewEvents, actors[i].name) = 0]_vars

\* the part the code keeps: at the seam every named item is tested, at the
\* reconciliation only the items for Mikage's rapid_response
NonPositiveCountRaisesInScope ==
    [][(returned' # returned \/ raised' # raised) /\ ~IsSinkEmit
           /\ cfg.caller = "step_tick" /\ cfg.has_sink =>
          /\ ProcCountsPositive(events')
          /\ BadCountSeenAtTurnStart =>
                 /\ raised' = "ValueError"
                 /\ \A k \in 1..Len(NewEvents) : NewEvents[k].type # MASTERY_PROC
          /\ (/\ BadCountSeenAtTurnEnd
              /\ Counted(Requested(cfg, "Mikage",
                                   actors'[IndexOfName(actors, "Mikage")]
                                       .skill_sequence_cursor), "Mikage") # {}) =>
                 raised' # "none"]_vars

\* Mikage's first turn ended and the call returned although the requester
\* answers for (Mikage, 1) with a count of 0 for another mastery
BadCountIgnoredWitness ==
    /\ cfg.has_sink
    /\ cfg.caller = "step_tick"
    /\ cfg.requester = "plain"
    /\ cfg.requests = OneRequest("Mikage", 1, "arcane_celerity", 0)
    /\ raised = "none"
    /\ actors[1].name = "Mikage"
    /\ actors[1].skill_sequence_cursor = 1
    /\ events # <<>>
    /\ events[Len(events)].type = TURN_END
    /\ events[Len(events)].actor = "Mikage"

\* the same item at the TURN_START seam raised
BadCountRaisedWitness ==
    /\ cfg.requester = "built"
    /\ cfg.requests = OneRequest("Mikage", 1, "arcane_celerity", 0)
    /\ raised = "ValueError"
    /\ events[Len(events)].type = TURN_START

-----------------------------------------------------------------------------
(* C37: the ordering of the dumped event stream *)

\* the closed frames of array out: <<a, b>> with TURN_START at a, TURN_END at
\* b and neither bookmark in between
FramesOf(out) ==
    {f \in (1..Len(out)) \X (1..Len(out)) :
        /\ f[1] < f[2]
        /\ out[f[1]].type = TURN_START
        /\ out[f[2]].type = TURN_END
        /\ \A k \in (f[1] + 1)..(f[2] - 1) : out[k].type \notin {TURN_START, TURN_END}}

\* in every frame the expirations precede the procs and the procs come
\* directly before TURN_END
ProcsLastInFrames(out) ==
    \A f \in FramesOf(out) : \A k \in (f[1] + 1)..(f[2] - 1) :
        /\ out[k].type = MASTERY_PROC =>
               \A j \in k..(f[2] - 1) : out[j].type = MASTERY_PROC
        /\ out[k].type = EFFECT_EXPIRED =>
               \A j \in (f[1] + 1)..k : out[j].type # MASTERY_PROC

\* every event of the log is written exactly once
EachWrittenOnce(evs, out) ==
    \A k \in 1..Len(evs) :
        Cardinality({j \in 1..Len(out) : out[j] = EventDict(evs[k])}) = 1

\* the events of the other types are written in the order of the log
OthersKeepOrder(evs, out) ==
    OfTypes(out, EventTypeValues \ {EFFECT_EXPIRED, MASTERY_PROC})
        = OfTypes([k \in 1..Len(evs) |-> EventDict(evs[k])],
                  EventTypeValues \ {EFFECT_EXPIRED, MASTERY_PROC})

\* the (tick, seq) pairs of array out are strictly increasing
PairsIncreasing(out) ==
    \A k \in 2..Len(out) : PairBefore(out[k - 1], out[k])

\* C37: in dump_event_stream(sink.events) every TURN_START..TURN_END frame
\* has its EFFECT_EXPIRED events before its MASTERY_PROC events and these
\* directly before TURN_END, every event of the log is written exactly once,
\* the other events keep their order, and the (tick, seq) pairs written are
\* strictly increasing.
DumpOrdered ==
    cfg.has_sink =>
        /\ ProcsLastInFrames(dump_event_stream(events))
        /\ EachWrittenOnce(events, dump_event_stream(events))
        /\ OthersKeepOrder(events, dump_event_stream(events))
        /\ PairsIncreasing(dump_event_stream(events))

\* what the dumper does keep: the local ordering, every event once, the order
\* of the other events, and nothing added but the synthetic marker
DumpOrderedNotNumbered ==
    cfg.has_sink =>
        LET out == dump_event_stream(events)
        IN /\ ProcsLastInFrames(out)
           /\ EachWrittenOnce(events, out)
           /\ OthersKeepOrder(events, out)
           /\ \A j \in 1..Len(out) :
                  \/ \E k \in 1..Len(events) : out[j] = EventDict(events[k])
                  \/ /\ out[j].seq = -1
                     /\ out[j].type = EFFECT_EXPIRED
                     /\ out[j].data = [synthetic |-> TRUE]

\* a closed frame whose MASTERY_PROC was recorded before another event of the
\* frame: the dumper moved it behind, with the seq it had
DumpMovedWitness ==
    /\ cfg.has_sink
    /\ raised = "none"
    /\ \E f \in FramesOf(dump_event_stream(events)) :
           /\ dump_event_stream(events)[f[2] - 1].type = MASTERY_PROC
           /\ dump_event_stream(events)[f[2] - 1].seq
                  < dump_event_stream(events)[f[2] - 2].seq

-----------------------------------------------------------------------------
(* C38: a run with a sink against the same run without one *)

\* the first n step_tick calls on the team and arguments of config c, given
\* a fresh InMemoryEventSink
ObservedRun(c, n) ==
    run_ticks_loop(Machine(c.team, <<>>, 0, 0, 0, EmptyMap, {}, {}, 0, TRUE),
                   [c EXCEPT !.has_sink = TRUE, !.has_stop = FALSE], n)

\* the BUFF instances of an actor with their durations, in list order
BuffsOf(a) ==
    LET buffs == FilterSeq(a.active_effects,
                           {k \in 1..Len(a.active_effects) :
                               a.active_effects[k].effect_kind = "BUFF"})
    IN [k \in 1..Len(buffs) |-> <<buffs[k].instance_id, buffs[k].duration>>]

\* what the meters say: turn meters and extra turns
MeterState(as) ==
    [i \in 1..Len(as) |-> <<as[i].turn_meter, as[i].extra_turns>>]

\* the state the two runs are compared on
ActorState(as) ==
    [i \in 1..Len(as) |->
        [turn_meter |-> as[i].turn_meter, extra_turns |-> as[i].extra_turns,
         shield |-> as[i].shield, effects |-> as[i].effects, buffs |-> BuffsOf(as[i])]]

\* the run has no sink and the caller has changed nothing between the calls
PlainUnobservedRun ==
    /\ ~cfg.has_sink
    /\ cfg.caller = "step_tick"
    /\ grants = 0
    /\ breaks = 0
    /\ raised = "none"

\* C38: after every step of a run without a sink, the calls have returned
\* the same actors as the same calls with an InMemoryEventSink, and the
\* actors' turn meters, extra turns, shields, legacy effects and BUFF
\* instances with their durations are the same as in that run.
SinkDoesNotChangeBehaviour ==
    PlainUnobservedRun =>
        LET o == ObservedRun(cfg, Len(returned))
        IN /\ o.m.raised = "none"
           /\ o.winners = returned
           /\ ActorState(o.m.actors) = ActorState(actors)

\* what the two runs do share: who acts, the turn meters, the extra turns and
\* the legacy effects
SinkDoesNotChangeTurnOrder ==
    PlainUnobservedRun =>
        LET o == ObservedRun(cfg, Len(returned))
        IN /\ o.m.raised = "none"
           /\ o.winners = returned
           /\ MeterState(o.m.actors) = MeterState(actors)
           /\ [i \in 1..Len(actors) |-> o.m.actors[i].effects]
                  = [i \in 1..Len(actors) |-> actors[i].effects]

\* after three calls without a sink an actor carries a BUFF the observed run
\* has removed
SinkRunDiffersWitness ==
    /\ PlainUnobservedRun
    /\ Len(returned) >= 3
    /\ \E i \in 1..Len(actors) :
           Len(BuffsOf(actors[i]))
               > Len(BuffsOf(ObservedRun(cfg, Len(returned)).m.actors[i]))

-----------------------------------------------------------------------------
(* C39: a call that raises *)

\* the fields of the actors a failed step is expected to leave alone
RolledBack(as) ==
    [i \in 1..Len(as) |->
        [turn_meter |-> as[i].turn_meter, extra_turns |-> as[i].extra_turns,
         shield |-> as[i].shield, effects |-> as[i].effects,
         active_effects |-> as[i].active_effects]]

\* the step is a step_tick call that raised
StepRaised ==
    /\ cfg.caller = "step_tick"
    /\ ~IsSinkEmit
    /\ raised = "none"
    /\ raised' # "none"

\* every TURN_START of log es has its TURN_END
TurnsClosed(es) ==
    Cardinality(TurnStarts(es))
        = Cardinality({k \in 1..Len(es) : es[k].type = TURN_END})

\* C39: when a step_tick call raises, the log holds no TURN_START without
\* its TURN_END and nothing of the failed step, and every actor's turn_meter,
\* extra_turns, shield and effects are what they were before the call.
RaisingStepIsAtomic ==
    [][StepRaised =>
          /\ TurnsClosed(events')
          /\ events' = events
          /\ RolledBack(actors') = RolledBack(actors)]_vars

\* what a raising call does leave: the events and the changes made up to the
\* raise, in a turn that is open (every raise the engine makes comes between
\* TURN_START and TURN_END)
RaisingStepStopsInTurn ==
    [][StepRaised =>
          /\ NewEvents # <<>>
          /\ ~TurnsClosed(events')
          /\ TurnsClosed(events)
          /\ Cardinality(TurnStarts(NewEvents)) = 1
          /\ RolledBack(actors') # RolledBack(actors)]_vars

\* an extra turn was being taken when the skill sequence ran out: the extra
\* turn is spent and the turn is left open
RaisedHalfDoneWitness ==
    /\ cfg.has_sink
    /\ raised = "SkillSequenceExhaustedError"
    /\ events[Len(events)].type = TURN_START
    /\ \E k \in 1..Len(events) : events[k].type = TURN_END
    /\ ~TurnsClosed(events)
    /\ \A i \in 1..Len(actors) : actors[i].extra_turns = 0

-----------------------------------------------------------------------------
(* C40: a rejection for want of qualifying expirations *)

\* the keys (holder, step) rejected in log es with reason no_qualifying_expirations
RejectedAsEmpty(es) ==
    {<<es[k].data.holder, es[k].data.skill_sequence_step>> :
        k \in {j \in 1..Len(es) :
                  /\ es[j].type = MASTERY_PROC_REJECTED
                  /\ es[j].data.reason = "no_qualifying_expirations"}}

\* C40: once MASTERY_PROC_REJECTED with reason no_qualifying_expirations is
\* recorded for (holder, step), the qualifying-expiration count of that key
\* is 0 and stays 0: no later expiration is counted under it.
EmptyRejectionIsFinal ==
    \A key \in RejectedAsEmpty(events) : Get(qcounts, key) = 0

\* at the rejection itself the count is 0, and the key is resolved for good:
\* no second outcome is recorded for it by the reconciliation
EmptyRejectionAtZero ==
    [][\A key \in RejectedAsEmpty(NewEvents) :
           /\ Get(qcounts, key) = 0
           /\ key \notin resolved
           /\ key \in resolved'
           /\ cfg.caller = "step_tick" => Get(qcounts', key) = 0]_vars

\* (Mikage, 1) was rejected as empty and an expiration has since been counted
\* under that key
CountedAfterRejectionWitness ==
    /\ <<"Mikage", 1>> \in RejectedAsEmpty(events)
    /\ Get(qcounts, <<"Mikage", 1>>) >= 1
    /\ raised = "none"

=============================================================================
